---- MODULE Spec2Model ----
(***************************************************************************)
(* Dynamic (runtime-configured) queries of bevy_ecs:                       *)
(*   query/dynamic/mod.rs     builder, query description, item surface     *)
(*   query/dynamic/fetch.rs   parameter fetch state and fetch engine       *)
(*   query/dynamic/filter.rs  filter state and filter fetch                *)
(*   query/dynamic.rs         DynamicParam variants, get_layout            *)
(*   examples/dynamic_query.rs  the world the example builds               *)
(*                                                                         *)
(* The world (archetypes, tables, sparse sets), the access sets and the    *)
(* query driver (QueryState / QueryIter) are collaborators that the        *)
(* sources only call; they are modelled here by their contract.            *)
(***************************************************************************)
EXTENDS Integers, Sequences, FiniteSets, TLC

\* ------------------------------------------------------------------ bounds
\* Entities spawned into the world.
MaxEntities == 3
\* Builder calls that add something to a query: parameters plus filter nodes.
MaxTerms == 3

\* --------------------------------------------------------- component registry
\* Handles a caller may put in a query; "U" is registered in no world.
Handles == {"V", "G", "U"}

\* world.components: the handles register_component returned.
Registered == {"V", "G"}

\* component_info.storage_type()
storage_type(id) == IF id = "V" THEN "Table" ELSE "SparseSet"

\* size_of::<TestComponent>() (three f64) and size_of::<GridSpace>() (two u8)
TestComponentSize == 24
GridSpaceSize == 2

\* component_info.layout().size()
layout_size(id) == IF id = "V" THEN TestComponentSize ELSE GridSpaceSize

\* The columns of the table that stores an entity with the given components.
TableColumns(components) == {id \in components : storage_type(id) = "Table"}

\* ------------------------------------------------------------------ pointers
Null == <<"null">>
Dangling == <<"dangling">>

VARIABLES
    archetypes,     \* world.archetypes, in registration order
    tables,         \* world.storages().tables
    sparse_sets,    \* world.storages().sparse_sets: handle -> dense entity list
    store,          \* component bytes: cell address -> value
    written,        \* ghost: <<entity, handle>> pairs written through an item
    params,         \* DynamicQueryBuilder.params
    conditions,     \* DynamicQueryBuilder.conditions (an Or builder)
    sub,            \* a second Or builder, the argument of Or::or
    query,          \* the DynamicQuery that build() returned, or NoQuery
    state,          \* the QueryState derived from the query, or NoState
    iter,           \* the QueryIter being driven, or NoIter
    yielded,        \* the rows the iterator has returned so far
    pc,             \* Setup, Built, StateDerived, Iterating, Done, Panicked,
                    \* Grown (restart), Parallel (two threads)
    panic,          \* the panic message once pc = "Panicked"
    cast,           \* a type-erased reference, the T of a downcast and its result
    rebuilt,        \* the DynamicQuery of a later build() on the same builder
    other,          \* a second query run on another thread: its description,
                    \* state, iterator and the row it was handed last
    layout          \* the last call of get_layout: its parameters and result

world == <<archetypes, tables, sparse_sets>>
builder == <<params, conditions, sub>>
vars == <<archetypes, tables, sparse_sets, store, written, params, conditions,
          sub, query, state, iter, yielded, pc, panic, cast, rebuilt,
          other, layout>>

NoQuery == [none |-> TRUE]
NoState == [none |-> TRUE]
NoIter == [none |-> TRUE]
NoPanic == "none"
NoCast == [none |-> TRUE]
NoOther == [none |-> TRUE]
NoRow == [none |-> TRUE]
NoLayout == [none |-> TRUE]

\* --------------------------------------------------------------- the world
\* Index (1-based) of the first element of seq satisfying Test, 0 if none.
IndexOf(seq, Test(_)) ==
    IF \E i \in 1..Len(seq) : Test(seq[i])
    THEN CHOOSE i \in 1..Len(seq) :
            Test(seq[i]) /\ \A j \in 1..(i - 1) : ~Test(seq[j])
    ELSE 0

\* Entities spawned so far.
EntityCount ==
    LET RECURSIVE Sum(_)
        Sum(n) == IF n = 0 THEN 0 ELSE Len(archetypes[n].entities) + Sum(n - 1)
    IN Sum(Len(archetypes))

AllEntities == 0..(EntityCount - 1)

\* The archetype an entity lives in, and the components it holds.
ArchetypeOf(e) ==
    CHOOSE a \in 1..Len(archetypes) :
        \E i \in 1..Len(archetypes[a].entities) : archetypes[a].entities[i] = e

ComponentsOf(e) == archetypes[ArchetypeOf(e)].components

\* Address of the cell that stores component id of entity e.
\* Table storage: column (table, id), byte offset row * size.
\* Sparse-set storage: dense array of the set, byte offset index * size.
CellOf(e, id) ==
    IF storage_type(id) = "Table"
    THEN LET t == archetypes[ArchetypeOf(e)].table_id
             row == IndexOf(tables[t].entities, LAMBDA x : x = e) - 1
         IN [base |-> <<"column", t, id>>, addr |-> row * layout_size(id)]
    ELSE LET idx == IndexOf(sparse_sets[id], LAMBDA x : x = e) - 1
         IN [base |-> <<"sparse", id>>, addr |-> idx * layout_size(id)]

\* world.spawn().insert_bundle(components): the entity gets the next id, a row
\* in the table of its table-stored components, a slot in the sparse set of
\* each sparse component, and a row in its archetype; archetype and table are
\* registered on first use.
World_spawn(components) ==
    LET e == EntityCount
        cols == TableColumns(components)
        t0 == IndexOf(tables, LAMBDA t : t.columns = cols)
        tables1 == IF t0 = 0
                   THEN Append(tables, [id |-> Len(tables) + 1, columns |-> cols,
                                        entities |-> <<>>])
                   ELSE tables
        t == IF t0 = 0 THEN Len(tables1) ELSE t0
        row == Len(tables1[t].entities)
        a0 == IndexOf(archetypes, LAMBDA a : a.components = components)
        archetypes1 ==
            IF a0 = 0
            THEN Append(archetypes,
                        [id |-> Len(archetypes) + 1,
                         components |-> components, table_id |-> t,
                         entities |-> <<>>, entity_table_rows |-> <<>>])
            ELSE archetypes
        a == IF a0 = 0 THEN Len(archetypes1) ELSE a0
    IN  /\ EntityCount < MaxEntities
        /\ tables' = [tables1 EXCEPT ![t].entities = Append(@, e)]
        /\ archetypes' =
              [archetypes1 EXCEPT ![a].entities = Append(@, e),
                                  ![a].entity_table_rows = Append(@, row)]
        /\ sparse_sets' =
              [id \in DOMAIN sparse_sets |->
                  IF id \in components THEN Append(sparse_sets[id], e)
                  ELSE sparse_sets[id]]
        /\ store' =
              [cell \in DOMAIN store \cup
                        {[base |-> <<"column", t, id>>,
                          addr |-> row * layout_size(id)] : id \in cols} \cup
                        {[base |-> <<"sparse", id>>,
                          addr |-> Len(sparse_sets[id]) * layout_size(id)] :
                            id \in components \ cols}
                 |-> IF cell \in DOMAIN store THEN store[cell] ELSE 0]

\* The example spawns its entities before it builds a query.
Spawn(components) ==
    /\ pc = "Setup"
    /\ params = <<>> /\ conditions = <<>> /\ sub = <<>>
    /\ World_spawn(components)
    /\ UNCHANGED <<cast, rebuilt, other, layout, written, params, conditions,
                   sub, query, state, iter, yielded, pc, panic>>

\* World::new(): the empty archetype and the empty table exist from the start;
\* the example registers V (Table) and G (SparseSet) before anything else.
Idle ==
    /\ archetypes = <<[id |-> 1, components |-> {}, table_id |-> 1,
                       entities |-> <<>>, entity_table_rows |-> <<>>]>>
    /\ tables = <<[id |-> 1, columns |-> {}, entities |-> <<>>]>>
    /\ sparse_sets = [id \in {h \in Registered : storage_type(h) = "SparseSet"}
                        |-> <<>>]
    /\ store = <<>>
    /\ written = {}
    /\ params = <<>>
    /\ conditions = <<>>
    /\ sub = <<>>
    /\ query = NoQuery
    /\ state = NoState
    /\ iter = NoIter
    /\ yielded = <<>>
    /\ pc = "Setup"
    /\ panic = NoPanic
    /\ rebuilt = NoQuery
    /\ other = NoOther
    /\ layout = NoLayout

Init == Idle /\ cast = NoCast

SpawnAny == \E components \in SUBSET Registered : Spawn(components)

\* ------------------------------------------------- query description, builder
\* DynamicParam (mod.rs): Entity | Component { component_id, optional, mutable }
EntityParam == [kind |-> "Entity"]
ComponentParam(id, opt, mut) ==
    [kind |-> "Component", component_id |-> id, optional |-> opt, mutable |-> mut]

\* DynamicFilter: With | Without | Or(DynamicFilterSet)
With(id) == [tag |-> "With", component_id |-> id]
Without(id) == [tag |-> "Without", component_id |-> id]
Or(set) == [tag |-> "Or", set |-> set]

\* Number of filter nodes in a list of filters (an Or counts as one node).
RECURSIVE Nodes(_)
Nodes(set) ==
    IF set = <<>> THEN 0
    ELSE (IF Head(set).tag = "Or" THEN 1 + Nodes(Head(set).set) ELSE 1)
         + Nodes(Tail(set))

\* What the builders hold so far: the parameters, the filter nodes of the
\* query's conditions, and the nodes the second Or builder will add once it is
\* passed to Or::or.
Terms ==
    Len(params) + Nodes(conditions)
    + (IF sub = <<>> THEN 0 ELSE 1 + Nodes(sub))

\* DynamicQueryBuilder::entity / component / mut_component /
\* optional_component / optional_mut_component: push one parameter.
PushParam(p) ==
    /\ pc = "Setup"
    /\ Terms < MaxTerms
    /\ params' = Append(params, p)
    /\ UNCHANGED <<cast, rebuilt, other, layout, world, store, written, conditions, sub, query, state, iter,
                   yielded, pc, panic>>

entity == PushParam(EntityParam)
component == \E id \in Handles : PushParam(ComponentParam(id, FALSE, FALSE))
mut_component == \E id \in Handles : PushParam(ComponentParam(id, FALSE, TRUE))
optional_component ==
    \E id \in Handles : PushParam(ComponentParam(id, TRUE, FALSE))
optional_mut_component ==
    \E id \in Handles : PushParam(ComponentParam(id, TRUE, TRUE))

\* A with_component that pushes the literal through to a description already
\* built, as if build() had handed out the builder's own vector.
with_component_into_built ==
    \E id \in Handles :
        /\ pc = "Setup"
        /\ Terms < MaxTerms
        /\ conditions' = Append(conditions, With(id))
        /\ query' = IF query = NoQuery THEN query
                    ELSE [query EXCEPT !.filter = Append(@, With(id))]
        /\ UNCHANGED <<cast, rebuilt, other, layout, world, store, written, params, sub, state,
                       iter, yielded, pc, panic>>

\* DynamicQueryBuilder::with_component / without_component: push a literal on
\* the builder's own Or.
with_component ==
    \E id \in Handles :
        /\ pc = "Setup"
        /\ Terms < MaxTerms
        /\ conditions' = Append(conditions, With(id))
        /\ UNCHANGED <<cast, rebuilt, other, layout, world, store, written, params, sub, query, state, iter,
                       yielded, pc, panic>>

without_component ==
    \E id \in Handles :
        /\ pc = "Setup"
        /\ Terms < MaxTerms
        /\ conditions' = Append(conditions, Without(id))
        /\ UNCHANGED <<cast, rebuilt, other, layout, world, store, written, params, sub, query, state, iter,
                       yielded, pc, panic>>

\* Or::with_component / Or::without_component on the second Or builder.
Or_with_component ==
    \E id \in Handles :
        /\ pc = "Setup"
        /\ Terms + (IF sub = <<>> THEN 1 ELSE 0) < MaxTerms
        /\ sub' = Append(sub, With(id))
        /\ UNCHANGED <<cast, rebuilt, other, layout, world, store, written, params, conditions, query, state,
                       iter, yielded, pc, panic>>

Or_without_component ==
    \E id \in Handles :
        /\ pc = "Setup"
        /\ Terms + (IF sub = <<>> THEN 1 ELSE 0) < MaxTerms
        /\ sub' = Append(sub, Without(id))
        /\ UNCHANGED <<cast, rebuilt, other, layout, world, store, written, params, conditions, query, state,
                       iter, yielded, pc, panic>>

\* Or::build: a copy of the conditions pushed so far.
Or_build(or) == or

\* Or::or, called on the query's conditions with the second builder, which
\* the caller then drops (a fresh one takes its place).
Or_or ==
    /\ pc = "Setup"
    /\ Terms + (IF sub = <<>> THEN 1 ELSE 0) <= MaxTerms
    /\ conditions' = Append(conditions, Or(Or_build(sub)))
    /\ sub' = <<>>
    /\ UNCHANGED <<cast, rebuilt, other, layout, world, store, written, params, query, state, iter,
                   yielded, pc, panic>>

\* Or::or, called on a fresh Or with the second builder; the fresh Or then
\* takes the second builder's place (one more level of nesting).
Or_or_nested ==
    /\ pc = "Setup"
    /\ Terms + (IF sub = <<>> THEN 2 ELSE 1) <= MaxTerms
    /\ sub' = <<Or(Or_build(sub))>>
    /\ UNCHANGED <<cast, rebuilt, other, layout, world, store, written, params, conditions, query, state,
                   iter, yielded, pc, panic>>

\* DynamicQueryBuilder::build
build ==
    /\ pc = "Setup"
    /\ query' = [params |-> params, filter |-> Or_build(conditions)]
    /\ pc' = "Built"
    /\ UNCHANGED <<cast, rebuilt, other, layout, world, store, written, params, conditions, sub, state, iter,
                   yielded, panic>>

\* ------------------------------------------------------------ derived state
\* The DynamicParam variant that fetch.rs matches on (dynamic.rs declares
\* Entity | Component { id } | OptionalComponent { id }): the builder's
\* optional flag selects OptionalComponent; fetch.rs never reads the mutable
\* flag.
ParamVariant(param) ==
    IF param.kind = "Entity" THEN "Entity"
    ELSE IF param.optional THEN "OptionalComponent"
    ELSE "Component"

\* DynamicQuery::fetch_state: one DynamicFetchState per parameter, in order.
DynamicQuery_fetch_state(q) ==
    [params |-> [i \in 1..Len(q.params) |-> [param |-> q.params[i]]]]

\* A conversion that loses the `without` flag of the literals inside an Or.
RECURSIVE DynamicFilterState_from_or_drops_without(_)
DynamicFilterState_from_or_drops_without(filter) ==
    CASE filter.tag = "With" ->
            [tag |-> "WithOrWithout", component_id |-> filter.component_id,
             without |-> FALSE]
      [] filter.tag = "Without" ->
            [tag |-> "WithOrWithout", component_id |-> filter.component_id,
             without |-> TRUE]
      [] filter.tag = "Or" ->
            [tag |-> "Or",
             params |-> [i \in 1..Len(filter.set) |->
                IF filter.set[i].tag = "Or"
                THEN DynamicFilterState_from_or_drops_without(filter.set[i])
                ELSE [tag |-> "WithOrWithout",
                      component_id |-> filter.set[i].component_id,
                      without |-> FALSE]]]

\* impl From<DynamicFilter> for DynamicFilterState
RECURSIVE DynamicFilterState_from(_)
DynamicFilterState_from(filter) ==
    CASE filter.tag = "With" ->
            [tag |-> "WithOrWithout", component_id |-> filter.component_id,
             without |-> FALSE]
      [] filter.tag = "Without" ->
            [tag |-> "WithOrWithout", component_id |-> filter.component_id,
             without |-> TRUE]
      [] filter.tag = "Or" ->
            [tag |-> "Or",
             params |-> [i \in 1..Len(filter.set) |->
                            DynamicFilterState_from(filter.set[i])]]

\* DynamicQuery::filter_state
DynamicQuery_filter_state(q) ==
    [params |-> [i \in 1..Len(q.filter) |-> DynamicFilterState_from(q.filter[i])]]

\* ------------------------------------------------------- access declaration
\* Access / FilteredAccess: reads_and_writes holds every handle accessed,
\* writes the handles accessed mutably; has_read answers for any access.
EmptyAccess ==
    [reads_and_writes |-> {}, writes |-> {}, with |-> {}, without |-> {}]

Access_has_read(access, id) == id \in access.reads_and_writes

Access_add_write(access, id) ==
    [access EXCEPT !.reads_and_writes = @ \cup {id}, !.writes = @ \cup {id}]

Access_add_with(access, id) == [access EXCEPT !.with = @ \cup {id}]

Access_add_without(access, id) == [access EXCEPT !.without = @ \cup {id}]

\* The published reads: handles accessed, but not mutably.
Access_reads(access) == access.reads_and_writes \ access.writes

AliasPanic ==
    "Dynamic access conflicts with a previous access in this query. Mutable component access must be unique."
UnknownPanic == "Expected component to exist"
UnwrapPanic == "called Option::unwrap() on a None value"

\* An access update that skips the has_read check.
DynamicFetchState_update_component_access_unchecked(s, access) ==
    IF ParamVariant(s.param) \in {"Component", "OptionalComponent"}
    THEN [panic |-> NoPanic,
          access |-> Access_add_write(access, s.param.component_id)]
    ELSE [panic |-> NoPanic, access |-> access]

\* DynamicFetchState::update_component_access: the access after the parameter,
\* or the panic it raises.
DynamicFetchState_update_component_access(s, access) ==
    IF ParamVariant(s.param) \in {"Component", "OptionalComponent"}
    THEN IF Access_has_read(access, s.param.component_id)
         THEN [panic |-> AliasPanic, access |-> access]
         ELSE [panic |-> NoPanic,
               access |-> Access_add_write(access, s.param.component_id)]
    ELSE [panic |-> NoPanic, access |-> access]

\* DynamicSetFetchState::update_component_access: the parameters in order.
RECURSIVE DynamicSetFetchState_update_component_access(_, _)
DynamicSetFetchState_update_component_access(ps, access) ==
    IF ps = <<>> THEN [panic |-> NoPanic, access |-> access]
    ELSE LET r == DynamicFetchState_update_component_access(Head(ps), access)
         IN IF r.panic # NoPanic THEN r
            ELSE DynamicSetFetchState_update_component_access(Tail(ps), r.access)

\* DynamicFilterState::update_component_access and
\* DynamicSetFilterState::update_component_access
RECURSIVE DynamicFilterState_update_component_access(_, _)
RECURSIVE DynamicSetFilterState_update_component_access(_, _)
DynamicFilterState_update_component_access(f, access) ==
    IF f.tag = "WithOrWithout"
    THEN IF f.without THEN Access_add_without(access, f.component_id)
         ELSE Access_add_with(access, f.component_id)
    ELSE DynamicSetFilterState_update_component_access(f.params, access)

DynamicSetFilterState_update_component_access(fs, access) ==
    IF fs = <<>> THEN access
    ELSE DynamicSetFilterState_update_component_access(
            Tail(fs), DynamicFilterState_update_component_access(Head(fs), access))

\* ------------------------------------------------------------------ matcher
\* A matcher that requires optional components too.
DynamicFetchState_matches_archetype_optional_required(s, archetype) ==
    IF ParamVariant(s.param) = "Entity" THEN TRUE
    ELSE s.param.component_id \in archetype.components

\* DynamicFetchState::matches_archetype / matches_table
DynamicFetchState_matches_archetype(s, archetype) ==
    IF ParamVariant(s.param) = "Component"
    THEN s.param.component_id \in archetype.components
    ELSE TRUE

DynamicFetchState_matches_table(s, table) ==
    IF ParamVariant(s.param) = "Component"
    THEN s.param.component_id \in table.columns
    ELSE TRUE

\* A set matcher that takes any parameter's match for all.
DynamicSetFetchState_matches_archetype_any(ps, archetype) ==
    \E i \in 1..Len(ps) : DynamicFetchState_matches_archetype(ps[i], archetype)

\* DynamicSetFetchState::matches_archetype / matches_table
DynamicSetFetchState_matches_archetype(ps, archetype) ==
    \A i \in 1..Len(ps) : DynamicFetchState_matches_archetype(ps[i], archetype)

DynamicSetFetchState_matches_table(ps, table) ==
    \A i \in 1..Len(ps) : DynamicFetchState_matches_table(ps[i], table)

\* A matcher for which an Or without children holds vacuously.
RECURSIVE DynamicFilterState_matches_archetype_empty_or_holds(_, _)
DynamicFilterState_matches_archetype_empty_or_holds(f, archetype) ==
    IF f.tag = "WithOrWithout"
    THEN (f.component_id \in archetype.components) # f.without
    ELSE \/ f.params = <<>>
         \/ \E i \in 1..Len(f.params) :
                DynamicFilterState_matches_archetype_empty_or_holds(
                    f.params[i], archetype)

\* A matcher that forgets the xor with `without`.
RECURSIVE DynamicFilterState_matches_archetype_no_xor(_, _)
DynamicFilterState_matches_archetype_no_xor(f, archetype) ==
    IF f.tag = "WithOrWithout"
    THEN f.component_id \in archetype.components
    ELSE \E i \in 1..Len(f.params) :
            DynamicFilterState_matches_archetype_no_xor(f.params[i], archetype)

\* DynamicFilterState::matches_archetype: contains ^ without for a literal,
\* any child for an Or.
RECURSIVE DynamicFilterState_matches_archetype(_, _)
DynamicFilterState_matches_archetype(f, archetype) ==
    IF f.tag = "WithOrWithout"
    THEN (f.component_id \in archetype.components) # f.without
    ELSE \E i \in 1..Len(f.params) :
            DynamicFilterState_matches_archetype(f.params[i], archetype)

\* A set matcher that asks the first filter only.
DynamicSetFilterState_matches_archetype_first_only(fs, archetype) ==
    fs = <<>> \/ DynamicFilterState_matches_archetype(fs[1], archetype)

\* DynamicSetFilterState::matches_archetype: all children.
DynamicSetFilterState_matches_archetype(fs, archetype) ==
    \A i \in 1..Len(fs) : DynamicFilterState_matches_archetype(fs[i], archetype)

\* DynamicFetchState::update_archetype_component_access: the archetype-scoped
\* id <<archetype, handle>> of the parameter's component, added as a write.
DynamicFetchState_update_archetype_component_access(s, archetype, access) ==
    IF /\ ParamVariant(s.param) \in {"Component", "OptionalComponent"}
       /\ s.param.component_id \in archetype.components
    THEN Access_add_write(access, <<archetype.id, s.param.component_id>>)
    ELSE access

RECURSIVE DynamicSetFetchState_update_archetype_component_access(_, _, _)
DynamicSetFetchState_update_archetype_component_access(ps, archetype, access) ==
    IF ps = <<>> THEN access
    ELSE DynamicSetFetchState_update_archetype_component_access(
            Tail(ps), archetype,
            DynamicFetchState_update_archetype_component_access(
                Head(ps), archetype, access))

\* DynamicFilterState / DynamicSetFilterState::update_archetype_component_access
DynamicSetFilterState_update_archetype_component_access(fs, archetype, access) ==
    access

\* -------------------------------------------------------------- fetch engine
\* The result of unwrapping None: the panic surfaces when the driver looks.
UnwrapNone == <<"unwrap-none">>

\* A cell address that comes from an unwrapped None, and one computed from a
\* pointer that addresses no live element.
NoCell == [base |-> UnwrapNone, addr |-> 0]
UndefinedCell == [base |-> <<"undefined">>, addr |-> 0]

\* archetype.entities().as_ptr() / table.entities().as_ptr()
ArchetypeEntitiesPtr(archetype) == <<"entities", "archetype", archetype.id>>
TableEntitiesPtr(table) == <<"entities", "table", table.id>>
\* archetype.entity_table_rows().as_ptr()
EntityTableRowsPtr(archetype) == <<"rows", archetype.id>>

\* table.get_column(id): Some(column) iff the table has the column.
\* column.get_data_ptr() / column.get_ticks_ptr()
ColumnDataPtr(table, id) ==
    IF id \in table.columns THEN <<"column", table.id, id>> ELSE UnwrapNone
ColumnTicksPtr(table, id) ==
    IF id \in table.columns THEN <<"ticks", table.id, id>> ELSE UnwrapNone

\* A read that counts the index from the end of the entity array.
ReadEntity_from_end(ptr, index) ==
    LET arr == IF ptr = Null THEN <<>>
               ELSE IF ptr[2] = "archetype" THEN archetypes[ptr[3]].entities
               ELSE tables[ptr[3]].entities
    IN IF Len(arr) - index \in DOMAIN arr THEN arr[Len(arr) - index] ELSE -1

\* *entities.add(index); -1 stands for whatever a read outside the array gives.
ReadEntity(ptr, index) ==
    LET arr == IF ptr = Null THEN <<>>
               ELSE IF ptr[2] = "archetype" THEN archetypes[ptr[3]].entities
               ELSE tables[ptr[3]].entities
    IN IF index + 1 \in DOMAIN arr THEN arr[index + 1] ELSE -1

\* *entity_table_rows.add(index)
ReadTableRow(ptr, index) ==
    LET arr == IF ptr = Null THEN <<>> ELSE archetypes[ptr[2]].entity_table_rows
    IN IF index + 1 \in DOMAIN arr THEN arr[index + 1] ELSE -1

\* (**sparse_set).get_with_ticks(entity): the cell of the entity, or None.
SparseGet(ptr, e) ==
    LET dense == sparse_sets[ptr[2]]
        idx == IndexOf(dense, LAMBDA x : x = e)
    IN IF idx = 0 THEN NoCell
       ELSE [base |-> ptr, addr |-> (idx - 1) * layout_size(ptr[2])]

\* DynamicFetch::init panics when the component is not registered.
DynamicFetch_init_panics(s) ==
    /\ ParamVariant(s.param) \in {"Component", "OptionalComponent"}
    /\ s.param.component_id \notin Registered

\* DynamicFetch::init
DynamicFetch_init(s) ==
    IF ParamVariant(s.param) = "Entity"
    THEN [variant |-> "Entity", entities |-> Null]
    ELSE [variant |-> ParamVariant(s.param),
          matches |-> FALSE,
          component_id |-> s.param.component_id,
          component_layout |-> layout_size(s.param.component_id),
          storage_type |-> storage_type(s.param.component_id),
          table_components |-> Dangling,
          entities |-> Null,
          entity_table_rows |-> Null,
          sparse_set |->
              IF storage_type(s.param.component_id) = "SparseSet"
              THEN <<"sparse", s.param.component_id>> ELSE Null,
          table_ticks |-> Null]

\* An is_dense that takes every parameter for dense.
DynamicFetch_is_dense_always(f) == TRUE

\* DynamicFetch::is_dense
DynamicFetch_is_dense(f) ==
    IF f.variant = "Entity" THEN TRUE ELSE f.storage_type = "Table"

\* A set_archetype that leaves `matches` as it was when the optional component
\* is absent.
DynamicFetch_set_archetype_stale_matches(f, archetype) ==
    CASE f.variant = "Component" /\ f.storage_type = "Table" ->
            [f EXCEPT
                !.entity_table_rows = EntityTableRowsPtr(archetype),
                !.table_components =
                    ColumnDataPtr(tables[archetype.table_id], f.component_id),
                !.table_ticks =
                    ColumnTicksPtr(tables[archetype.table_id], f.component_id)]
      [] f.variant = "OptionalComponent" /\ f.storage_type = "Table" ->
            IF f.component_id \in archetype.components
            THEN [f EXCEPT
                    !.matches = TRUE,
                    !.entity_table_rows = EntityTableRowsPtr(archetype),
                    !.table_components =
                        ColumnDataPtr(tables[archetype.table_id], f.component_id),
                    !.table_ticks =
                        ColumnTicksPtr(tables[archetype.table_id], f.component_id)]
            ELSE f
      [] f.variant = "OptionalComponent" /\ f.storage_type = "SparseSet" ->
            IF f.component_id \in archetype.components
            THEN [f EXCEPT !.matches = TRUE,
                           !.entities = ArchetypeEntitiesPtr(archetype)]
            ELSE f
      [] \/ f.variant = "Entity"
         \/ (f.variant = "Component" /\ f.storage_type = "SparseSet") ->
            [f EXCEPT !.entities = ArchetypeEntitiesPtr(archetype)]

\* DynamicFetch::set_archetype
DynamicFetch_set_archetype(f, archetype) ==
    CASE f.variant = "Component" /\ f.storage_type = "Table" ->
            [f EXCEPT
                !.entity_table_rows = EntityTableRowsPtr(archetype),
                !.table_components =
                    ColumnDataPtr(tables[archetype.table_id], f.component_id),
                !.table_ticks =
                    ColumnTicksPtr(tables[archetype.table_id], f.component_id)]
      [] f.variant = "OptionalComponent" /\ f.storage_type = "Table" ->
            IF DynamicFetchState_matches_archetype(
                   [param |-> ComponentParam(f.component_id, FALSE, FALSE)],
                   archetype)
            THEN [f EXCEPT
                    !.matches = TRUE,
                    !.entity_table_rows = EntityTableRowsPtr(archetype),
                    !.table_components =
                        ColumnDataPtr(tables[archetype.table_id], f.component_id),
                    !.table_ticks =
                        ColumnTicksPtr(tables[archetype.table_id], f.component_id)]
            ELSE [f EXCEPT !.matches = FALSE]
      [] f.variant = "OptionalComponent" /\ f.storage_type = "SparseSet" ->
            IF DynamicFetchState_matches_archetype(
                   [param |-> ComponentParam(f.component_id, FALSE, FALSE)],
                   archetype)
            THEN [f EXCEPT !.matches = TRUE,
                           !.entities = ArchetypeEntitiesPtr(archetype)]
            ELSE [f EXCEPT !.matches = FALSE]
      [] \/ f.variant = "Entity"
         \/ (f.variant = "Component" /\ f.storage_type = "SparseSet") ->
            [f EXCEPT !.entities = ArchetypeEntitiesPtr(archetype)]

\* A set_table that leaves `matches` as it was when the table has no column of
\* the optional component.
DynamicFetch_set_table_stale_matches(f, table) ==
    CASE f.variant = "Component" ->
            [f EXCEPT !.table_components = ColumnDataPtr(table, f.component_id),
                      !.table_ticks = ColumnTicksPtr(table, f.component_id)]
      [] f.variant = "OptionalComponent" ->
            IF f.component_id \in table.columns
            THEN [f EXCEPT
                    !.matches = TRUE,
                    !.table_components = ColumnDataPtr(table, f.component_id),
                    !.table_ticks = ColumnTicksPtr(table, f.component_id)]
            ELSE f
      [] f.variant = "Entity" ->
            [f EXCEPT !.entities = TableEntitiesPtr(table)]

\* DynamicFetch::set_table
DynamicFetch_set_table(f, table) ==
    CASE f.variant = "Component" ->
            [f EXCEPT !.table_components = ColumnDataPtr(table, f.component_id),
                      !.table_ticks = ColumnTicksPtr(table, f.component_id)]
      [] f.variant = "OptionalComponent" ->
            IF DynamicFetchState_matches_table(
                   [param |-> ComponentParam(f.component_id, FALSE, FALSE)],
                   table)
            THEN [f EXCEPT
                    !.matches = TRUE,
                    !.table_components = ColumnDataPtr(table, f.component_id),
                    !.table_ticks = ColumnTicksPtr(table, f.component_id)]
            ELSE [f EXCEPT !.matches = FALSE]
      [] f.variant = "Entity" ->
            [f EXCEPT !.entities = TableEntitiesPtr(table)]

\* DynamicItem as fetch.rs builds it: Entity(e) | Component { pointer } |
\* NoMatch (mod.rs names the last one ComponentNotPresent).
EntityItem(e) == [tag |-> "Entity", entity |-> e]
ComponentItem(pointer) == [tag |-> "Component", pointer |-> pointer]
NoMatch == [tag |-> "NoMatch"]

\* A column cell addressed by the row number alone, not scaled by the size of
\* the component.
ColumnCell_unscaled(f, row) ==
    IF f.table_components = UnwrapNone THEN NoCell
    ELSE IF row < 0 \/ f.table_components = Dangling THEN UndefinedCell
    ELSE [base |-> f.table_components, addr |-> row]

\* table_components.as_ptr().add(row * component_layout.size())
ColumnCell(f, row) ==
    IF f.table_components = UnwrapNone THEN NoCell
    ELSE IF row < 0 \/ f.table_components = Dangling THEN UndefinedCell
    ELSE [base |-> f.table_components, addr |-> row * f.component_layout]

\* An archetype_fetch that indexes the column by the archetype index itself.
DynamicFetch_archetype_fetch_no_row_map(f, archetype_index) ==
    CASE f.variant = "Entity" ->
            EntityItem(ReadEntity(f.entities, archetype_index))
      [] f.variant = "OptionalComponent" /\ ~f.matches -> NoMatch
      [] /\ f.variant = "Component" \/ (f.variant = "OptionalComponent" /\ f.matches)
         /\ f.storage_type = "Table" ->
            ComponentItem(ColumnCell(f, archetype_index))
      [] /\ f.variant = "Component" \/ (f.variant = "OptionalComponent" /\ f.matches)
         /\ f.storage_type = "SparseSet" ->
            LET e == ReadEntity(f.entities, archetype_index)
            IN ComponentItem(IF e < 0 THEN UndefinedCell
                             ELSE SparseGet(f.sparse_set, e))

\* DynamicFetch::archetype_fetch
DynamicFetch_archetype_fetch(f, archetype_index) ==
    CASE f.variant = "Entity" ->
            EntityItem(ReadEntity(f.entities, archetype_index))
      [] f.variant = "OptionalComponent" /\ ~f.matches -> NoMatch
      [] /\ f.variant = "Component" \/ (f.variant = "OptionalComponent" /\ f.matches)
         /\ f.storage_type = "Table" ->
            ComponentItem(
                ColumnCell(f, ReadTableRow(f.entity_table_rows, archetype_index)))
      [] /\ f.variant = "Component" \/ (f.variant = "OptionalComponent" /\ f.matches)
         /\ f.storage_type = "SparseSet" ->
            LET e == ReadEntity(f.entities, archetype_index)
            IN ComponentItem(IF e < 0 THEN UndefinedCell
                             ELSE SparseGet(f.sparse_set, e))

\* A table_fetch that reports every optional component as absent.
DynamicFetch_table_fetch_optional_absent(f, table_row) ==
    CASE f.variant = "Entity" -> EntityItem(ReadEntity(f.entities, table_row))
      [] f.variant = "OptionalComponent" -> NoMatch
      [] f.variant = "Component" -> ComponentItem(ColumnCell(f, table_row))

\* DynamicFetch::table_fetch
DynamicFetch_table_fetch(f, table_row) ==
    CASE f.variant = "Entity" -> EntityItem(ReadEntity(f.entities, table_row))
      [] f.variant = "OptionalComponent" /\ ~f.matches -> NoMatch
      [] f.variant = "Component" \/ (f.variant = "OptionalComponent" /\ f.matches) ->
            ComponentItem(ColumnCell(f, table_row))

\* DynamicSetFetch::init / is_dense / set_archetype / set_table /
\* archetype_fetch / table_fetch: the parameters in order.
DynamicSetFetch_init(ps) == [i \in 1..Len(ps) |-> DynamicFetch_init(ps[i])]

DynamicSetFetch_is_dense(fs) ==
    \A i \in 1..Len(fs) : DynamicFetch_is_dense(fs[i])

DynamicSetFetch_set_archetype(fs, archetype) ==
    [i \in 1..Len(fs) |-> DynamicFetch_set_archetype(fs[i], archetype)]

DynamicSetFetch_set_table(fs, table) ==
    [i \in 1..Len(fs) |-> DynamicFetch_set_table(fs[i], table)]

DynamicSetFetch_archetype_fetch(fs, archetype_index) ==
    [i \in 1..Len(fs) |-> DynamicFetch_archetype_fetch(fs[i], archetype_index)]

DynamicSetFetch_table_fetch(fs, table_row) ==
    [i \in 1..Len(fs) |-> DynamicFetch_table_fetch(fs[i], table_row)]

\* ------------------------------------------------------------- filter fetch
\* DynamicFilterFetch::init: the storage type of a literal's component; for an
\* Or, Table iff every child is Table, the children initialised in order and
\* only up to the first one that is not Table. The result is "panic" when an
\* initialised literal names an unregistered component.
RECURSIVE DynamicFilterFetch_init(_)
RECURSIVE OrChildrenStorage(_)

\* An init that takes every registered component for table-stored.
DynamicFilterFetch_init_all_table(f) ==
    IF f.tag = "WithOrWithout"
    THEN IF f.component_id \in Registered THEN "Table" ELSE "panic"
    ELSE OrChildrenStorage(f.params)

DynamicFilterFetch_init(f) ==
    IF f.tag = "WithOrWithout"
    THEN IF f.component_id \in Registered THEN storage_type(f.component_id)
         ELSE "panic"
    ELSE OrChildrenStorage(f.params)

OrChildrenStorage(fs) ==
    IF fs = <<>> THEN "Table"
    ELSE LET first == DynamicFilterFetch_init(Head(fs))
         IN IF first = "Table" THEN OrChildrenStorage(Tail(fs))
            ELSE IF first = "panic" THEN "panic"
            ELSE "SparseSet"

\* DynamicSetFilterFetch::init
DynamicSetFilterFetch_init(fs) ==
    [i \in 1..Len(fs) |-> [storage_type |-> DynamicFilterFetch_init(fs[i])]]

\* DynamicFilterFetch::is_dense / DynamicSetFilterFetch::is_dense
\* An is_dense that takes every filter for dense.
DynamicFilterFetch_is_dense_always(ff) == TRUE

DynamicFilterFetch_is_dense(ff) == ff.storage_type = "Table"

DynamicSetFilterFetch_is_dense(ffs) ==
    \A i \in 1..Len(ffs) : DynamicFilterFetch_is_dense(ffs[i])

\* DynamicFilterFetch::archetype_fetch / table_fetch and the set's conjunction
DynamicFilterFetch_fetch(ff, index) == TRUE

DynamicSetFilterFetch_fetch(ffs, index) ==
    \A i \in 1..Len(ffs) : DynamicFilterFetch_fetch(ffs[i], index)

\* ------------------------------------------------------------------- driver
Range(seq) == {seq[i] : i \in 1..Len(seq)}

\* QueryState::new_archetype: a matching archetype is recorded once, and so is
\* its table; its component access is added to the archetype access set.
QueryState_new_archetype(st, archetype) ==
    IF /\ DynamicSetFetchState_matches_archetype(st.fetch_state.params, archetype)
       /\ DynamicSetFilterState_matches_archetype(st.filter_state.params, archetype)
    THEN [st EXCEPT
            !.archetype_component_access =
                DynamicSetFilterState_update_archetype_component_access(
                    st.filter_state.params, archetype,
                    DynamicSetFetchState_update_archetype_component_access(
                        st.fetch_state.params, archetype, @)),
            !.matched_archetype_ids =
                IF archetype.id \in Range(@) THEN @ ELSE Append(@, archetype.id),
            !.matched_table_ids =
                IF archetype.table_id \in Range(@) THEN @
                ELSE Append(@, archetype.table_id)]
    ELSE st

\* QueryState::validate_world_and_update_archetypes: the world's archetypes
\* from the n-th on, in registration order; the state remembers how many it
\* has seen.
RECURSIVE QueryState_update_archetypes(_, _)
QueryState_update_archetypes(st, n) ==
    IF n > Len(archetypes)
    THEN [st EXCEPT !.archetype_generation = Len(archetypes)]
    ELSE QueryState_update_archetypes(
            QueryState_new_archetype(st, archetypes[n]), n + 1)

\* World::query_dynamic (QueryState::new): derive fetch and filter state, build
\* the component access, then match the archetypes. The access is published
\* with the state; a panic while it is built leaves no state.
query_dynamic ==
    /\ pc = "Built"
    /\ LET fs == DynamicQuery_fetch_state(query)
           fl == DynamicQuery_filter_state(query)
           r == DynamicSetFetchState_update_component_access(fs.params, EmptyAccess)
       IN IF r.panic # NoPanic
          THEN /\ pc' = "Panicked"
               /\ panic' = r.panic
               /\ state' = NoState
          ELSE /\ pc' = "StateDerived"
               /\ panic' = panic
               /\ \E new \in
                    {[fetch_state |-> fs,
                      filter_state |-> fl,
                      component_access |->
                         DynamicSetFilterState_update_component_access(
                             fl.params, r.access),
                      archetype_component_access |-> EmptyAccess,
                      archetype_generation |-> 0,
                      matched_archetype_ids |-> <<>>,
                      matched_table_ids |-> <<>>]} :
                    state' = QueryState_update_archetypes(new, 1)
    /\ UNCHANGED <<cast, rebuilt, other, layout, world, store, written,
                   params, conditions, sub, query, iter, yielded>>

\* QueryIter::new
QueryIter_new(st) ==
    LET fetch == DynamicSetFetch_init(st.fetch_state.params)
        filter == DynamicSetFilterFetch_init(st.filter_state.params)
    IN [fetch |-> fetch,
        filter |-> filter,
        is_dense |-> DynamicSetFetch_is_dense(fetch)
                     /\ DynamicSetFilterFetch_is_dense(filter),
        cursor |-> 0,
        current |-> 0,
        current_len |-> 0,
        current_index |-> 0]

\* QueryState::iter_mut: the fetches are initialised here; an unregistered
\* component makes the expect in DynamicFetch::init or DynamicFilterFetch::init
\* panic.
iter_mut ==
    /\ pc = "StateDerived"
    /\ IF \/ \E i \in 1..Len(state.fetch_state.params) :
                DynamicFetch_init_panics(state.fetch_state.params[i])
          \/ \E i \in 1..Len(state.filter_state.params) :
                DynamicFilterFetch_init(state.filter_state.params[i]) = "panic"
       THEN /\ pc' = "Panicked"
            /\ panic' = UnknownPanic
            /\ iter' = NoIter
       ELSE /\ pc' = "Iterating"
            /\ panic' = panic
            /\ iter' = QueryIter_new(state)
    /\ UNCHANGED <<cast, rebuilt, other, layout, world, store, written, params, conditions, sub, query, state,
                   yielded>>

\* QueryIter::next on an iterator of the query state st: enter the next
\* matched table (dense) or archetype when the current one is exhausted, then
\* fetch the row at current_index.
RECURSIVE QueryIter_next_in(_, _)
QueryIter_next_in(st, it) ==
    LET ids == IF it.is_dense THEN st.matched_table_ids
               ELSE st.matched_archetype_ids
    IN IF it.current_index = it.current_len
       THEN IF it.cursor = Len(ids)
            THEN [kind |-> "None", iter |-> it]
            ELSE LET id == ids[it.cursor + 1]
                     fetch == IF it.is_dense
                              THEN DynamicSetFetch_set_table(it.fetch, tables[id])
                              ELSE DynamicSetFetch_set_archetype(
                                       it.fetch, archetypes[id])
                     len == IF it.is_dense THEN Len(tables[id].entities)
                            ELSE Len(archetypes[id].entities)
                 IN IF \E k \in 1..Len(fetch) :
                          /\ fetch[k].variant # "Entity"
                          /\ fetch[k].table_components = UnwrapNone
                    THEN [kind |-> "Panic", iter |-> it]
                    ELSE QueryIter_next_in(st,
                            [it EXCEPT !.fetch = fetch, !.cursor = @ + 1,
                                       !.current = id, !.current_len = len,
                                       !.current_index = 0])
       ELSE IF ~DynamicSetFilterFetch_fetch(it.filter, it.current_index)
       THEN QueryIter_next_in(st, [it EXCEPT !.current_index = @ + 1])
       ELSE LET items ==
                    IF it.is_dense
                    THEN DynamicSetFetch_table_fetch(it.fetch, it.current_index)
                    ELSE DynamicSetFetch_archetype_fetch(
                             it.fetch, it.current_index)
                e == IF it.is_dense
                     THEN tables[it.current].entities[it.current_index + 1]
                     ELSE archetypes[it.current].entities[it.current_index + 1]
            IN IF \E k \in 1..Len(items) :
                     items[k].tag = "Component" /\ items[k].pointer = NoCell
               THEN [kind |-> "Panic", iter |-> it]
               ELSE [kind |-> "Some",
                     iter |-> [it EXCEPT !.current_index = @ + 1],
                     row |-> [items |-> items, entity |-> e]]

\* QueryIter::next on an iterator of the derived state.
QueryIter_next(it) == QueryIter_next_in(state, it)

\* A loop that stops after the first row.
QueryIter_collect_one(it, rows) ==
    LET r == QueryIter_next(it)
    IN IF r.kind = "Some" THEN [kind |-> "None", rows |-> Append(rows, r.row)]
       ELSE [kind |-> r.kind, rows |-> rows]

\* Driving an iterator to its end (a `for` loop over it): the rows it returns,
\* and whether it ended or panicked.
RECURSIVE QueryIter_collect(_, _)
QueryIter_collect(it, rows) ==
    LET r == QueryIter_next(it)
    IN IF r.kind = "Some" THEN QueryIter_collect(r.iter, Append(rows, r.row))
       ELSE [kind |-> r.kind, rows |-> rows]

\* An iterator call that touches the storage as it yields: every cell a
\* component item of the row points to is overwritten.
next_touching ==
    /\ pc = "Iterating"
    /\ LET r == QueryIter_next(iter)
       IN CASE r.kind = "Some" ->
                  /\ iter' = r.iter
                  /\ yielded' = Append(yielded, r.row)
                  /\ store' = [c \in DOMAIN store |->
                                 IF \E k \in 1..Len(r.row.items) :
                                        /\ r.row.items[k].tag = "Component"
                                        /\ r.row.items[k].pointer = c
                                 THEN 1 ELSE store[c]]
                  /\ UNCHANGED <<pc, panic>>
            [] r.kind = "None" ->
                  /\ iter' = r.iter
                  /\ pc' = "Done"
                  /\ UNCHANGED <<yielded, panic, store>>
            [] r.kind = "Panic" ->
                  /\ pc' = "Panicked"
                  /\ panic' = UnwrapPanic
                  /\ UNCHANGED <<iter, yielded, store>>
    /\ UNCHANGED <<cast, rebuilt, other, layout, world, written, params, conditions, sub, query,
                   state>>

\* An iterator call that starts over from the first matched archetype when it
\* has run out of rows.
next_rewinding ==
    /\ pc = "Iterating"
    /\ LET r == QueryIter_next(iter)
       IN CASE r.kind = "Some" ->
                  /\ iter' = r.iter
                  /\ yielded' = Append(yielded, r.row)
                  /\ UNCHANGED <<pc, panic>>
            [] r.kind = "None" ->
                  /\ iter' = QueryIter_new(state)
                  /\ UNCHANGED <<pc, yielded, panic>>
            [] r.kind = "Panic" ->
                  /\ pc' = "Panicked"
                  /\ panic' = UnwrapPanic
                  /\ UNCHANGED <<iter, yielded>>
    /\ UNCHANGED <<cast, rebuilt, other, layout, world, store, written, params,
                   conditions, sub, query, state>>

\* One call of the iterator: a row (recorded with the entity it is the row
\* of), the end of the iteration, or a panic.
next ==
    /\ pc = "Iterating"
    /\ LET r == QueryIter_next(iter)
       IN CASE r.kind = "Some" ->
                  /\ iter' = r.iter
                  /\ yielded' = Append(yielded, r.row)
                  /\ UNCHANGED <<pc, panic>>
            [] r.kind = "None" ->
                  /\ iter' = r.iter
                  /\ pc' = "Done"
                  /\ UNCHANGED <<yielded, panic>>
            [] r.kind = "Panic" ->
                  /\ pc' = "Panicked"
                  /\ panic' = UnwrapPanic
                  /\ UNCHANGED <<iter, yielded>>
    /\ UNCHANGED <<cast, rebuilt, other, layout, world, store, written, params, conditions, sub, query, state>>

\* The caller writes through the item of a mutable parameter in the row it was
\* just handed (the example squares x, y and z in place): the addressed cell
\* changes, and the row's entity and the parameter's handle are remembered.
write ==
    /\ pc = "Iterating"
    /\ yielded # <<>>
    /\ \E k \in 1..Len(query.params) :
        LET row == yielded[Len(yielded)]
        IN /\ query.params[k].kind = "Component"
           /\ query.params[k].mutable
           /\ row.items[k].tag = "Component"
           /\ row.items[k].pointer \in DOMAIN store
           /\ store[row.items[k].pointer] = 0
           /\ store' = [store EXCEPT ![row.items[k].pointer] = 1]
           /\ written' = written \cup {<<row.entity, query.params[k].component_id>>}
    /\ UNCHANGED <<cast, rebuilt, other, layout, world, params, conditions, sub, query, state, iter, yielded,
                   pc, panic>>

Next ==
    \/ SpawnAny
    \/ entity
    \/ component
    \/ mut_component
    \/ optional_component
    \/ optional_mut_component
    \/ with_component
    \/ without_component
    \/ Or_with_component
    \/ Or_without_component
    \/ Or_or
    \/ Or_or_nested
    \/ build
    \/ query_dynamic
    \/ iter_mut
    \/ next
    \/ write

Spec == Init /\ [][Next]_vars

\* ------------------------------------------------------- reference semantics
\* What the query description asks for, read off the description alone.
RECURSIVE FilterHolds(_, _)
FilterHolds(filter, components) ==
    CASE filter.tag = "With" -> filter.component_id \in components
      [] filter.tag = "Without" -> filter.component_id \notin components
      [] filter.tag = "Or" ->
            \E i \in 1..Len(filter.set) : FilterHolds(filter.set[i], components)

RequiredHandles(ps) ==
    {ps[i].component_id :
        i \in {j \in 1..Len(ps) : ps[j].kind = "Component" /\ ~ps[j].optional}}

\* The entity holds every non-optional parameter's component and its
\* components satisfy every top-level filter of the built query.
Satisfies(e) ==
    /\ RequiredHandles(query.params) \subseteq ComponentsOf(e)
    /\ \A i \in 1..Len(query.filter) : FilterHolds(query.filter[i], ComponentsOf(e))

\* How often the iteration has yielded a row of entity e.
TimesYielded(e) == Cardinality({r \in 1..Len(yielded) : yielded[r].entity = e})

YieldedEntities == {yielded[r].entity : r \in 1..Len(yielded)}

\* -------------------------------------------------------------------- claims
\* C1: Matching soundness. Every row yielded, in dense (table) mode and in
\* archetype mode, belongs to an entity that holds every non-optional
\* parameter's component and whose components satisfy the whole filter.
C1_MatchingSoundness ==
    \A r \in 1..Len(yielded) : Satisfies(yielded[r].entity)

\* C1 witness: a dense iteration with a filter has finished, has yielded rows
\* and has left out an entity that does not satisfy the query.
C1_Witness ==
    /\ pc = "Done"
    /\ iter.is_dense
    /\ query.filter # <<>>
    /\ yielded # <<>>
    /\ \E e \in AllEntities : ~Satisfies(e)

\* C2: Matching completeness. When an iteration over the unchanged world has
\* run to its end, every entity that holds all non-optional parameter
\* components and satisfies the filter has been yielded exactly once.
C2_MatchingCompleteness ==
    pc = "Done" =>
        \A e \in AllEntities : Satisfies(e) => TimesYielded(e) = 1

\* C2 witness: a finished dense iteration in which two matched archetypes share
\* one table, each entity of both yielded.
C2_Witness ==
    /\ pc = "Done"
    /\ iter.is_dense
    /\ Len(state.matched_archetype_ids) > Len(state.matched_table_ids)
    /\ Len(yielded) = MaxEntities

\* C3: Parameter order preservation. Every yielded row has one item per
\* parameter, and the k-th item is the kind the k-th parameter asks for: an
\* Entity item for an Entity parameter, a Component item for an immutable
\* parameter, a MutableComponent item for a mutable one (NoMatch, that is
\* ComponentNotPresent, only for an optional parameter).
ItemFor(param, item) ==
    IF param.kind = "Entity" THEN item.tag = "Entity"
    ELSE \/ item.tag = (IF param.mutable THEN "MutableComponent" ELSE "Component")
         \/ param.optional /\ item.tag = "NoMatch"

C3_ParameterOrder ==
    \A r \in 1..Len(yielded) :
        /\ Len(yielded[r].items) = Len(query.params)
        /\ \A k \in 1..Len(query.params) :
              ItemFor(query.params[k], yielded[r].items[k])

\* C4: Row coherence and write visibility. Each component item of a row
\* addresses the cell that stores that component for the row's entity, an
\* Entity item is that entity, and so the cells written through mutable items
\* are exactly the cells a later query reads for those entities.
ArchetypeRow(e) ==
    IndexOf(archetypes[ArchetypeOf(e)].entities, LAMBDA x : x = e) - 1

TableRow(e) ==
    IndexOf(tables[archetypes[ArchetypeOf(e)].table_id].entities,
            LAMBDA x : x = e) - 1

C4_RowCoherence ==
    /\ \A r \in 1..Len(yielded) :
          \A k \in 1..Len(yielded[r].items) :
              LET item == yielded[r].items[k]
              IN /\ item.tag = "Entity" => item.entity = yielded[r].entity
                 /\ item.tag = "Component" =>
                        item.pointer =
                            CellOf(yielded[r].entity, query.params[k].component_id)
    /\ \A e \in AllEntities :
          \A id \in ComponentsOf(e) :
              store[CellOf(e, id)] = (IF <<e, id>> \in written THEN 1 ELSE 0)

\* C4 witness: an archetype-mode iteration has finished after a write through
\* a table-stored component of an entity whose table row differs from its
\* archetype row.
C4_Witness ==
    /\ pc = "Done"
    /\ ~iter.is_dense
    /\ \E w \in written :
          storage_type(w[2]) = "Table" /\ ArchetypeRow(w[1]) # TableRow(w[1])

\* C5: For an optional component parameter the item of a row is a Component
\* (or MutableComponent) item if the row's entity holds the component and
\* NoMatch (ComponentNotPresent) if it does not.
C5_OptionalVariants ==
    \A r \in 1..Len(yielded) :
        \A k \in 1..Len(query.params) :
            (query.params[k].kind = "Component" /\ query.params[k].optional) =>
                IF query.params[k].component_id \in ComponentsOf(yielded[r].entity)
                THEN yielded[r].items[k].tag \in {"Component", "MutableComponent"}
                ELSE yielded[r].items[k].tag = "NoMatch"

\* C5 witness: a finished dense iteration whose optional parameter was present
\* in one row and absent in another.
C5_Witness ==
    /\ pc = "Done"
    /\ iter.is_dense
    /\ \E k \in 1..Len(query.params) :
          /\ query.params[k].kind = "Component" /\ query.params[k].optional
          /\ \E r1, r2 \in 1..Len(yielded) :
                /\ yielded[r1].items[k].tag = "Component"
                /\ yielded[r2].items[k].tag = "NoMatch"

\* The parameters that remain when Entity and optional parameters are taken
\* out, and what the engine does with a parameter list and a filter.
Strip(ps) == SelectSeq(ps, LAMBDA p : p.kind = "Component" /\ ~p.optional)

Accepted(ps, filter) ==
    LET q == [params |-> ps, filter |-> filter]
        fs == DynamicQuery_fetch_state(q).params
        fl == DynamicQuery_filter_state(q).params
    IN /\ DynamicSetFetchState_update_component_access(fs, EmptyAccess).panic
            = NoPanic
       /\ \A i \in 1..Len(fs) : ~DynamicFetch_init_panics(fs[i])
       /\ \A i \in 1..Len(fl) : DynamicFilterFetch_init(fl[i]) # "panic"

Matched(ps, filter) ==
    LET q == [params |-> ps, filter |-> filter]
    IN {e \in AllEntities :
          /\ DynamicSetFetchState_matches_archetype(
                DynamicQuery_fetch_state(q).params, archetypes[ArchetypeOf(e)])
          /\ DynamicSetFilterState_matches_archetype(
                DynamicQuery_filter_state(q).params, archetypes[ArchetypeOf(e)])}

\* C6 as claimed: whatever Entity and optional parameters a query has on top
\* of an accepted query, it is iterated and yields the same set of entities.
C6_OptionalNeverRestricts ==
    (pc \in {"Done", "Panicked"} /\ Accepted(Strip(query.params), query.filter)) =>
        /\ pc = "Done"
        /\ YieldedEntities = Matched(Strip(query.params), query.filter)

\* C6 amended: every iteration that runs to its end has yielded exactly the
\* entities the query yields without its Entity and optional parameters.
C6_OptionalNeverRestrictsAccepted ==
    pc = "Done" => YieldedEntities = Matched(Strip(query.params), query.filter)

\* C6 witness: a finished iteration with an optional parameter that yielded an
\* entity lacking that parameter's component.
C6_Witness ==
    /\ pc = "Done"
    /\ \E k \in 1..Len(query.params) :
          /\ query.params[k].kind = "Component" /\ query.params[k].optional
          /\ \E e \in YieldedEntities :
                query.params[k].component_id \notin ComponentsOf(e)

\* C7: Access declaration. For every accepted query the published reads and
\* writes are disjoint, the writes are exactly the handles of the parameters
\* marked mutable, and the handles of immutable parameters are reads only.
HandlesWhere(ps, Test(_)) ==
    {ps[i].component_id : i \in {j \in 1..Len(ps) :
                                    ps[j].kind = "Component" /\ Test(ps[j])}}

C7_AccessDeclaration ==
    state # NoState =>
        LET reads == Access_reads(state.component_access)
            writes == state.component_access.writes
        IN /\ reads \cap writes = {}
           /\ writes = HandlesWhere(query.params, LAMBDA p : p.mutable)
           /\ HandlesWhere(query.params, LAMBDA p : ~p.mutable) \subseteq reads

\* C8: A query with a mutable and an immutable parameter on the same handle,
\* in either order, is rejected with the alias conflict when its state is
\* derived: no state, no iterator, no row.
HasMutableImmutablePair(ps) ==
    \E i, j \in 1..Len(ps) :
        /\ ps[i].kind = "Component" /\ ps[j].kind = "Component"
        /\ ps[i].component_id = ps[j].component_id
        /\ ps[i].mutable /\ ~ps[j].mutable

C8_AliasConflict ==
    (pc \notin {"Setup", "Built"} /\ HasMutableImmutablePair(query.params)) =>
        /\ pc = "Panicked"
        /\ panic = AliasPanic
        /\ state = NoState
        /\ iter = NoIter
        /\ yielded = <<>>

\* C8 witness: the query [mut_component(h), component(h)] has been rejected
\* with the alias conflict.
C8_Witness ==
    /\ pc = "Panicked"
    /\ panic = AliasPanic
    /\ Len(query.params) = 2
    /\ query.params[1].kind = "Component" /\ query.params[1].mutable
    /\ query.params[2].kind = "Component" /\ ~query.params[2].mutable
    /\ query.params[1].component_id = query.params[2].component_id

\* C9: A query whose only duplicate is one registered handle in two immutable
\* parameters passes the aliasing check and yields that component in both
\* item positions of every row.
C9_TwoReaders ==
    ( /\ pc \notin {"Setup", "Built"}
      /\ Len(query.params) = 2
      /\ query.params[1].kind = "Component"
      /\ query.params[1].component_id \in Registered
      /\ ~query.params[1].optional /\ ~query.params[1].mutable
      /\ query.params[2] = query.params[1] ) =>
        /\ panic # AliasPanic
        /\ \A r \in 1..Len(yielded) :
              /\ yielded[r].items[1].tag = "Component"
              /\ yielded[r].items[2] = yielded[r].items[1]

\* C10: A query with an unregistered handle in a parameter or a filter fails
\* when its state is derived, with an error value and not a panic; no access
\* declaration is published and no iterator is returned.
RECURSIVE FilterHandles(_)
FilterHandles(set) ==
    IF set = <<>> THEN {}
    ELSE (IF Head(set).tag = "Or" THEN FilterHandles(Head(set).set)
          ELSE {Head(set).component_id})
         \cup FilterHandles(Tail(set))

QueryHandles(q) ==
    HandlesWhere(q.params, LAMBDA p : TRUE) \cup FilterHandles(q.filter)

C10_UnknownComponent ==
    (pc \notin {"Setup", "Built"} /\ ~(QueryHandles(query) \subseteq Registered)) =>
        /\ state = NoState
        /\ iter = NoIter
        /\ panic = NoPanic

\* C11: A query whose filter names one handle both in With and in Without is
\* rejected when the access is built, so the with and without sets of every
\* published component access are disjoint.
C11_WithWithoutDisjoint ==
    state # NoState =>
        state.component_access.with \cap state.component_access.without = {}

\* Every parameter is an Entity parameter or a table-stored component.
ParamsDense(ps) ==
    \A k \in 1..Len(ps) :
        ps[k].kind = "Entity" \/ storage_type(ps[k].component_id) = "Table"

\* C12 as claimed: an iteration is dense if and only if every parameter is an
\* Entity parameter or a table-stored component parameter, whatever the filter.
C12_DenseSelection ==
    iter # NoIter => (iter.is_dense <=> ParamsDense(query.params))

\* C12 amended: an iteration is dense if and only if every parameter is an
\* Entity parameter or a table-stored component parameter and every handle
\* named in the filter is table-stored; nothing of the world's contents enters.
C12_DenseSelectionWithFilter ==
    iter # NoIter =>
        (iter.is_dense <=>
            /\ ParamsDense(query.params)
            /\ \A h \in FilterHandles(query.filter) : storage_type(h) = "Table")

\* C12 witness: a query whose parameters are all table-stored is iterated by
\* archetypes because its filter names a sparse-set component.
C12_Witness ==
    /\ pc = "Iterating"
    /\ ~iter.is_dense
    /\ query.params # <<>>
    /\ ParamsDense(query.params)
    /\ AllEntities # {}

\* The multiset of the elements of a sequence.
BagOf(seq) ==
    [x \in Range(seq) |-> Cardinality({i \in 1..Len(seq) : seq[i] = x})]

\* The archetype-mode fallback of the query: the same state and fetches,
\* driven over the matched archetypes with set_archetype / archetype_fetch.
ArchetypeModeRun ==
    QueryIter_collect([QueryIter_new(state) EXCEPT !.is_dense = FALSE], <<>>)

\* C13: Dense and sparse output agree. Whenever a dense iteration has run to
\* its end, the archetype-mode fallback of the same query over the same world
\* ends too and yields the same multiset of rows: the same entities, the same
\* component cells, the same optional variants.
C13_DenseEqualsSparse ==
    (pc = "Done" /\ iter.is_dense) =>
        /\ ArchetypeModeRun.kind = "None"
        /\ BagOf(ArchetypeModeRun.rows) = BagOf(yielded)

\* C13 witness: a finished dense iteration over three entities of one table
\* that belong to two archetypes, with an optional parameter present in a row,
\* where the fallback yields the same rows in another order.
C13_Witness ==
    /\ pc = "Done"
    /\ iter.is_dense
    /\ Len(yielded) = 3
    /\ ArchetypeModeRun.rows # yielded
    /\ Len(state.matched_table_ids) < Len(state.matched_archetype_ids)
    /\ \E k \in 1..Len(query.params) :
          /\ query.params[k].kind = "Component" /\ query.params[k].optional
          /\ \E r \in 1..Len(yielded) : yielded[r].items[k].tag = "Component"

\* C14: The filter matcher equals the reference semantics. For the filter
\* state derived from any filter tree and for every archetype (every set of
\* registered components), the matcher accepts the archetype if and only if
\* every top-level filter holds of its components, where With(h) holds iff h
\* is among them, Without(h) iff it is not, and Or(xs) iff some child holds.
C14_FilterMatcherReference ==
    state # NoState =>
        \A components \in SUBSET Registered :
            DynamicSetFilterState_matches_archetype(
                state.filter_state.params, [components |-> components])
            <=> \A i \in 1..Len(query.filter) :
                    FilterHolds(query.filter[i], components)

\* C14 witness: a state was derived from a filter with a non-empty Or, and
\* the world holds an archetype it accepts and one it rejects.
C14_Witness ==
    /\ state # NoState
    /\ \E i \in 1..Len(query.filter) :
          query.filter[i].tag = "Or" /\ query.filter[i].set # <<>>
    /\ \E a, b \in 1..Len(archetypes) :
          /\ DynamicSetFilterState_matches_archetype(
                state.filter_state.params, archetypes[a])
          /\ ~DynamicSetFilterState_matches_archetype(
                state.filter_state.params, archetypes[b])

\* The archetypes whose components the parameters accept, in registration
\* order.
ParamAccepted ==
    SelectSeq([i \in 1..Len(archetypes) |-> i],
              LAMBDA i : DynamicSetFetchState_matches_archetype(
                            state.fetch_state.params, archetypes[i]))

\* An Or without children somewhere in a list of filters, at any depth.
RECURSIVE ContainsEmptyOr(_)
ContainsEmptyOr(set) ==
    \E i \in 1..Len(set) :
        /\ set[i].tag = "Or"
        /\ set[i].set = <<>> \/ ContainsEmptyOr(set[i].set)

\* A filter that is an Or with no literal below it: an Or without children,
\* or an Or of such Ors.
RECURSIVE LiteralFreeOr(_)
LiteralFreeOr(filter) ==
    /\ filter.tag = "Or"
    /\ \A i \in 1..Len(filter.set) : LiteralFreeOr(filter.set[i])

\* C15 as claimed: with an empty top-level filter the matched archetypes are
\* those the parameters accept, and a filter containing an Or without
\* children anywhere matches no archetype and yields no row.
C15_EmptyFilterNodes ==
    state # NoState =>
        /\ query.filter = <<>> => state.matched_archetype_ids = ParamAccepted
        /\ ContainsEmptyOr(query.filter) =>
              state.matched_archetype_ids = <<>> /\ yielded = <<>>

\* C15 amended: with an empty top-level filter the matched archetypes are
\* those the parameters accept, and a filter one of whose top-level elements
\* is an Or with no literal below it matches no archetype and yields no row.
C15_EmptyFilterNodesTopLevel ==
    state # NoState =>
        /\ query.filter = <<>> => state.matched_archetype_ids = ParamAccepted
        /\ (\E i \in 1..Len(query.filter) : LiteralFreeOr(query.filter[i])) =>
              /\ state.matched_archetype_ids = <<>>
              /\ state.matched_table_ids = <<>>
              /\ yielded = <<>>

\* C15 witness: an iteration over a populated world whose parameters accept
\* every entity has ended without a row because the filter is an empty Or.
C15_Witness ==
    /\ pc = "Done"
    /\ Len(ParamAccepted) = Len(archetypes)
    /\ EntityCount = MaxEntities
    /\ query.params # <<>>
    /\ query.filter = <<Or(<<>>)>>

\* Two distinct entities stored in the same table.
ShareTable(e1, e2) ==
    /\ e1 # e2
    /\ archetypes[ArchetypeOf(e1)].table_id = archetypes[ArchetypeOf(e2)].table_id

\* C16: Filters over sparse-set components are honoured when every parameter
\* is an Entity or a table-stored component: a finished iteration of such a
\* query whose filter names a sparse-set component has yielded every entity
\* that satisfies the query once and no other entity, although entities that
\* differ only in sparse-set components share a table.
C16_SparseFiltersHonoured ==
    ( /\ pc = "Done"
      /\ ParamsDense(query.params)
      /\ \E h \in FilterHandles(query.filter) : storage_type(h) = "SparseSet" ) =>
        \A e \in AllEntities :
            TimesYielded(e) = (IF Satisfies(e) THEN 1 ELSE 0)

\* C16 witness: [component(V)] filtered by Without(G) has been iterated over
\* a world where a yielded entity shares its table with one holding V and G.
C16_Witness ==
    /\ pc = "Done"
    /\ query.params = <<ComponentParam("V", FALSE, FALSE)>>
    /\ query.filter = <<Without("G")>>
    /\ \E e1 \in YieldedEntities :
          \E e2 \in AllEntities \ YieldedEntities :
              ShareTable(e1, e2) /\ ComponentsOf(e2) = {"V", "G"}

\* The archetypes, in registration order, whose components satisfy the query.
MatchingArchetypes ==
    SelectSeq([i \in 1..Len(archetypes) |-> i],
              LAMBDA i :
                /\ RequiredHandles(query.params) \subseteq archetypes[i].components
                /\ \A j \in 1..Len(query.filter) :
                      FilterHolds(query.filter[j], archetypes[i].components))

\* The tables of a list of archetypes, each at its first occurrence.
RECURSIVE FirstTables(_, _)
FirstTables(ids, seen) ==
    IF ids = <<>> THEN seen
    ELSE FirstTables(Tail(ids),
            IF archetypes[Head(ids)].table_id \in Range(seen) THEN seen
            ELSE Append(seen, archetypes[Head(ids)].table_id))

\* The entity arrays of a list of archetypes or tables, one after the other.
RECURSIVE EntitiesInOrder(_, _)
EntitiesInOrder(ids, containers) ==
    IF ids = <<>> THEN <<>>
    ELSE containers[Head(ids)].entities \o EntitiesInOrder(Tail(ids), containers)

\* The rows yielded so far follow the order `expected`: the r-th row is the
\* row of the r-th entity, and so say its Entity items.
YieldedInOrder(expected) ==
    /\ Len(yielded) <= Len(expected)
    /\ \A r \in 1..Len(yielded) :
          /\ yielded[r].entity = expected[r]
          /\ \A k \in 1..Len(query.params) :
                query.params[k].kind = "Entity" =>
                    yielded[r].items[k] = EntityItem(expected[r])

\* C17 as claimed: in every iteration, dense or not, the matching archetypes
\* are visited in registration order and the rows of one archetype are
\* yielded consecutively in the order of its entity array.
C17_IterationOrder ==
    pc \in {"Iterating", "Done"} =>
        YieldedInOrder(EntitiesInOrder(MatchingArchetypes, archetypes))

\* C17 amended: an archetype-mode iteration visits the matching archetypes in
\* registration order and yields each one's rows consecutively in the order
\* of its entity array; a dense iteration visits the tables of the matching
\* archetypes, each table once at the place of its first matching archetype,
\* and yields each table's rows consecutively in the order of the table's
\* entity array.
C17_IterationOrderByMode ==
    pc \in {"Iterating", "Done"} =>
        YieldedInOrder(
            IF iter.is_dense
            THEN EntitiesInOrder(FirstTables(MatchingArchetypes, <<>>), tables)
            ELSE EntitiesInOrder(MatchingArchetypes, archetypes))

\* C17 witness: a dense iteration with an Entity parameter has ended after
\* three rows of one table, the rows of one archetype not being consecutive.
C17_Witness ==
    /\ pc = "Done"
    /\ iter.is_dense
    /\ Len(yielded) = 3
    /\ \E k \in 1..Len(query.params) : query.params[k].kind = "Entity"
    /\ ArchetypeOf(yielded[1].entity) = ArchetypeOf(yielded[3].entity)
    /\ ArchetypeOf(yielded[1].entity) # ArchetypeOf(yielded[2].entity)

\* QueryState::iter_mut called once more on the derived state: the archetypes
\* registered since the last call are matched (none, the world being the
\* same), the fetches are initialised afresh and the iterator is driven to
\* its end.
SecondIteration ==
    QueryIter_collect(
        QueryIter_new(QueryState_update_archetypes(state, Len(archetypes) + 1)),
        <<>>)

TypeIds == {"TestComponent", "GridSpace", "u32"}

\* The cells a reference can point to: the rows of the V column and the slots
\* of the G sparse set.
CastPointers ==
    {[base |-> <<"column", 2, "V">>, addr |-> r * TestComponentSize] :
        r \in 0..(MaxEntities - 1)}
    \cup {[base |-> <<"sparse", "G">>, addr |-> r * GridSpaceSize] :
            r \in 0..(MaxEntities - 1)}

\* DynamicComponentReference { type_id, pointer } and
\* DynamicMutComponentReference { type_id, pointer }
DynamicComponentReference(type_id, pointer) ==
    [kind |-> "Component", type_id |-> type_id, pointer |-> pointer]

DynamicMutComponentReference(type_id, pointer) ==
    [kind |-> "MutableComponent", type_id |-> type_id, pointer |-> pointer]

None == [tag |-> "None"]
Some(x) == [tag |-> "Some", value |-> x]

\* A downcast that never compares the type ids (downcast_unchecked).
DynamicComponentReference_downcast_unchecked(self, T) ==
    Some([type |-> T, pointer |-> self.pointer, mutable |-> FALSE])

\* DynamicComponentReference::downcast::<T>: &T at the pointer, or None.
DynamicComponentReference_downcast(self, T) ==
    IF T # self.type_id THEN None
    ELSE Some([type |-> T, pointer |-> self.pointer, mutable |-> FALSE])

\* DynamicMutComponentReference::downcast::<T>: &mut T at the pointer, or None.
DynamicMutComponentReference_downcast(self, T) ==
    IF T # self.type_id THEN None
    ELSE Some([type |-> T, pointer |-> self.pointer, mutable |-> TRUE])

\* A caller holds some reference and has not downcast it yet.
InitDowncast ==
    /\ Idle
    /\ \E type_id \in TypeIds, pointer \in CastPointers :
          \E reference \in {DynamicComponentReference(type_id, pointer),
                            DynamicMutComponentReference(type_id, pointer)} :
              cast = [reference |-> reference, T |-> "none", result |-> "none"]

\* reference.downcast::<T>() on the immutable and on the mutable reference.
downcast ==
    \E T \in TypeIds :
        /\ cast.T = "none"
        /\ cast.reference.kind = "Component"
        /\ cast' = [cast EXCEPT
                        !.T = T,
                        !.result =
                            DynamicComponentReference_downcast(cast.reference, T)]
        /\ UNCHANGED <<rebuilt, other, layout, world, store, written, params, conditions, sub,
                       query, state, iter, yielded, pc, panic>>

downcast_mut ==
    \E T \in TypeIds :
        /\ cast.T = "none"
        /\ cast.reference.kind = "MutableComponent"
        /\ cast' = [cast EXCEPT
                        !.T = T,
                        !.result =
                            DynamicMutComponentReference_downcast(cast.reference, T)]
        /\ UNCHANGED <<rebuilt, other, layout, world, store, written, params, conditions, sub,
                       query, state, iter, yielded, pc, panic>>

NextDowncast ==
    \/ downcast
    \/ downcast_mut

SpecDowncast == InitDowncast /\ [][NextDowncast]_vars

\* C19: Downcast soundness. For the immutable and for the mutable reference,
\* downcast::<T>() returns a reference, to the referenced cell and of the
\* reference's mutability, if and only if the stored type id is T's;
\* otherwise it returns None. The reference itself is never changed.
C19_DowncastSound ==
    /\ [](cast.T # "none" =>
            IF cast.T = cast.reference.type_id
            THEN cast.result =
                    Some([type |-> cast.T,
                          pointer |-> cast.reference.pointer,
                          mutable |-> cast.reference.kind = "MutableComponent"])
            ELSE cast.result = None)
    /\ [][cast'.reference = cast.reference]_vars

\* C19 witness: a mutable reference was downcast to another type than the one
\* it stores.
C19_Witness ==
    /\ cast # NoCast
    /\ cast.reference.kind = "MutableComponent"
    /\ cast.T \in TypeIds \ {cast.reference.type_id}
    /\ cast.result = None

\* The archetype-scoped ids <<archetype, handle>> of the component parameters
\* passing Test whose component a matched archetype contains.
ArchetypeScopedIds(Test(_)) ==
    {<<a, h>> \in Range(state.matched_archetype_ids) \X Handles :
        /\ h \in archetypes[a].components
        /\ h \in HandlesWhere(query.params, Test)}

\* C20: Archetype-level access. Over the matched archetypes the archetype
\* access set holds the archetype-scoped id of every component parameter
\* whose component the archetype contains (always so for a non-optional one)
\* and nothing else, nothing for Entity parameters or filters, tagged
\* write for mutable parameters and read for immutable ones.
C20_ArchetypeAccess ==
    state # NoState =>
        LET access == state.archetype_component_access
        IN /\ access.reads_and_writes = ArchetypeScopedIds(LAMBDA p : TRUE)
           /\ access.writes = ArchetypeScopedIds(LAMBDA p : p.mutable)
           /\ Access_reads(access) = ArchetypeScopedIds(LAMBDA p : ~p.mutable)

\* C21: The published with and without sets are sound for every filter, Or
\* nodes included: every archetype the query matches contains every handle of
\* the published with set and no handle of the published without set.
C21_WithWithoutSound ==
    state # NoState =>
        \A a \in Range(state.matched_archetype_ids) :
            /\ state.component_access.with \subseteq archetypes[a].components
            /\ state.component_access.without \cap archetypes[a].components = {}

\* ------------------------------------------------ a builder that is kept
\* DynamicQueryBuilder::build takes &self: the caller keeps the builder and
\* goes on calling it. The first description it returns is held in `query`.
build_keep ==
    /\ pc = "Setup"
    /\ query = NoQuery
    /\ query' = [params |-> params, filter |-> Or_build(conditions)]
    /\ UNCHANGED <<cast, rebuilt, other, layout, world, store, written, params, conditions, sub,
                   state, iter, yielded, pc, panic>>

\* build() once more on the same builder: another description.
build_again ==
    /\ pc = "Setup"
    /\ query # NoQuery
    /\ rebuilt' = [params |-> params, filter |-> Or_build(conditions)]
    /\ UNCHANGED <<cast, other, layout, world, store, written, params, conditions, sub,
                   query, state, iter, yielded, pc, panic>>

\* Or::or takes &Or: the caller keeps the second builder and goes on calling
\* it after the disjunction was pushed.
Or_or_keep ==
    /\ pc = "Setup"
    /\ Terms + (IF sub = <<>> THEN 1 ELSE 0) <= MaxTerms
    /\ conditions' = Append(conditions, Or(Or_build(sub)))
    /\ UNCHANGED <<cast, rebuilt, other, layout, world, store, written, params, sub, query, state,
                   iter, yielded, pc, panic>>

NextBuilder ==
    \/ entity
    \/ component
    \/ mut_component
    \/ optional_component
    \/ optional_mut_component
    \/ with_component
    \/ without_component
    \/ Or_with_component
    \/ Or_without_component
    \/ Or_or_keep
    \/ build_keep
    \/ build_again

SpecBuilder == Init /\ [][NextBuilder]_vars

\* C22: A built query description is immutable. After build(), whatever is
\* called on the builder it came from (a parameter or a filter literal is
\* appended, build() is called again) leaves the parameters and the filter of
\* the description already built as they were; and after parent.or(sub),
\* whatever is called on sub leaves every disjunction recorded in parent as it
\* was.
C22_BuiltImmutable ==
    [][ /\ query # NoQuery => query' = query
        /\ \A i \in 1..Len(conditions) :
              /\ i <= Len(conditions')
              /\ conditions'[i] = conditions[i] ]_vars

\* C22 witness: after build() the builder was given a disjunction of the then
\* empty second builder, the second builder was given a literal, and build()
\* was called again: the new description differs from the first one.
C22_Witness ==
    /\ query # NoQuery
    /\ rebuilt # NoQuery
    /\ rebuilt # query
    /\ sub # <<>>
    /\ \E i \in 1..Len(conditions) : conditions[i] = Or(<<>>)
    /\ Or(<<>>) \in Range(rebuilt.filter)

\* The first n elements of a sequence.
Prefix(seq, n) == [i \in 1..n |-> seq[i]]

Access_is_compatible(a, b) ==
    /\ a.writes \cap b.reads_and_writes = {}
    /\ b.writes \cap a.reads_and_writes = {}

\* FilteredAccess::is_compatible: the accesses are compatible, or the filters
\* are disjoint (one side requires a component the other side excludes).
FilteredAccess_is_compatible(a, b) ==
    \/ Access_is_compatible(a, b)
    \/ a.with \cap b.without # {}
    \/ a.without \cap b.with # {}

\* World::query_dynamic as a function of the description: the derived state
\* (see query_dynamic), NoState when the access conflicts.
World_query_dynamic(q) ==
    LET fs == DynamicQuery_fetch_state(q)
        fl == DynamicQuery_filter_state(q)
        r == DynamicSetFetchState_update_component_access(fs.params, EmptyAccess)
    IN IF r.panic # NoPanic THEN NoState
       ELSE QueryState_update_archetypes(
                [fetch_state |-> fs,
                 filter_state |-> fl,
                 component_access |->
                    DynamicSetFilterState_update_component_access(
                        fl.params, r.access),
                 archetype_component_access |-> EmptyAccess,
                 archetype_generation |-> 0,
                 matched_archetype_ids |-> <<>>,
                 matched_table_ids |-> <<>>], 1)

\* The queries the two threads run. Each has one component parameter on a
\* registered handle. The first thread's parameter is mutable and its filter
\* is empty, one literal, or a disjunction of a With literal and another
\* literal; the second thread's parameter is immutable or mutable and its
\* filter is empty or one literal.
ParallelLiterals ==
    {With(h) : h \in Registered} \cup {Without(h) : h \in Registered}

FirstQueries ==
    {[params |-> <<ComponentParam(h, FALSE, TRUE)>>, filter |-> f] :
        h \in Registered,
        f \in {<<>>} \cup {<<l>> : l \in ParallelLiterals}
              \cup {<<Or(<<With(g), l>>)>> :
                        g \in Registered, l \in ParallelLiterals}}

SecondQueries ==
    {[params |-> <<ComponentParam(h, FALSE, m)>>, filter |-> f] :
        h \in Registered, m \in BOOLEAN,
        f \in {<<>>} \cup {<<l>> : l \in ParallelLiterals}}

\* The scheduler starts two queries on two threads against the populated
\* world; it does so only when their published component accesses are
\* compatible.
run_parallel ==
    \E q1 \in FirstQueries, q2 \in SecondQueries :
        LET st1 == World_query_dynamic(q1)
            st2 == World_query_dynamic(q2)
        IN /\ pc = "Setup"
           /\ params = <<>> /\ conditions = <<>> /\ sub = <<>>
           /\ EntityCount > 0
           /\ st1 # NoState /\ st2 # NoState
           /\ FilteredAccess_is_compatible(st1.component_access,
                                           st2.component_access)
           /\ query' = q1
           /\ state' = st1
           /\ iter' = QueryIter_new(st1)
           /\ other' = [query |-> q2, state |-> st2, iter |-> QueryIter_new(st2),
                        row |-> NoRow]
           /\ pc' = "Parallel"
           /\ UNCHANGED <<cast, rebuilt, layout, world, store, written, params,
                          conditions, sub, yielded, panic>>

\* One row step of the first thread: the next row, or the end of its
\* iteration, when the iterator and the items it handed out are dropped.
step_first ==
    /\ pc = "Parallel"
    /\ iter # NoIter
    /\ LET r == QueryIter_next_in(state, iter)
       IN CASE r.kind = "Some" ->
                  /\ iter' = r.iter
                  /\ yielded' = Append(yielded, r.row)
                  /\ UNCHANGED <<pc, panic>>
            [] r.kind = "None" ->
                  /\ iter' = NoIter
                  /\ UNCHANGED <<yielded, pc, panic>>
            [] r.kind = "Panic" ->
                  /\ pc' = "Panicked"
                  /\ panic' = UnwrapPanic
                  /\ UNCHANGED <<iter, yielded>>
    /\ UNCHANGED <<cast, rebuilt, other, layout, world, store, written, params,
                   conditions, sub, query, state>>

\* One row step of the second thread.
step_second ==
    /\ pc = "Parallel"
    /\ other.iter # NoIter
    /\ LET r == QueryIter_next_in(other.state, other.iter)
       IN CASE r.kind = "Some" ->
                  /\ other' = [other EXCEPT !.iter = r.iter, !.row = r.row]
                  /\ UNCHANGED <<pc, panic>>
            [] r.kind = "None" ->
                  /\ other' = [other EXCEPT !.iter = NoIter, !.row = NoRow]
                  /\ UNCHANGED <<pc, panic>>
            [] r.kind = "Panic" ->
                  /\ pc' = "Panicked"
                  /\ panic' = UnwrapPanic
                  /\ UNCHANGED other
    /\ UNCHANGED <<cast, rebuilt, layout, world, store, written, params, conditions,
                   sub, query, state, iter, yielded>>

NextParallel ==
    \/ SpawnAny
    \/ run_parallel
    \/ step_first
    \/ step_second

SpecParallel == Init /\ [][NextParallel]_vars

\* The component cells that the items of a row reference, each with the
\* mutability of the parameter it was yielded for.
RowReferences(q, row) ==
    {[cell |-> row.items[k].pointer, mutable |-> q.params[k].mutable] :
        k \in {j \in 1..Len(q.params) : row.items[j].tag = "Component"}}

\* C24: Readers xor writer under parallel execution. Two queries run
\* concurrently only if their published access declarations are compatible;
\* then at every point of every interleaving of their row steps no component
\* cell is referenced by a mutable item of the row one query holds while an
\* item of the row the other query holds references it.
C24_ReadersXorWriter ==
    ( /\ pc = "Parallel"
      /\ iter # NoIter /\ yielded # <<>>
      /\ other.iter # NoIter /\ other.row # NoRow ) =>
        \A r1 \in RowReferences(query, yielded[Len(yielded)]) :
            \A r2 \in RowReferences(other.query, other.row) :
                r1.cell = r2.cell => ~r1.mutable /\ ~r2.mutable

\* ------------------------------------------------------------ total layout
\* std::alloc::Layout: a size and an alignment (a power of two).
Layout(size, align) == [size |-> size, align |-> align]

\* size_of / align_of of Entity (two u32), TestComponent (three f64) and
\* GridSpace (two u8).
EntityLayout == Layout(8, 4)
TestComponentAlign == 8
GridSpaceAlign == 1

\* component_info.layout()
layout_of(id) ==
    IF id = "V" THEN Layout(TestComponentSize, TestComponentAlign)
    ELSE Layout(GridSpaceSize, GridSpaceAlign)

\* isize::MAX, the largest size a Layout can have (a 32-bit target).
isize_MAX == 2147483647

\* Layout::padding_needed_for: what brings size up to a multiple of align.
Layout_padding_needed_for(self, align) ==
    (align - (self.size % align)) % align

\* Layout::extend: the next layout is placed after self at the first offset that suits
\* its alignment; Err when the size would pass isize::MAX.
Layout_extend(self, next_layout) ==
    LET new_align == IF self.align >= next_layout.align THEN self.align ELSE next_layout.align
        offset == self.size + Layout_padding_needed_for(self, next_layout.align)
    IN IF offset > isize_MAX - next_layout.size THEN [kind |-> "Err"]
       ELSE [kind |-> "Ok", layout |-> Layout(offset + next_layout.size, new_align),
             offset |-> offset]

\* DynamicParam::get_layout: the layout of what the parameter yields, an
\* Entity or the component; None for a handle the world does not know.
DynamicParam_get_layout(param) ==
    IF ParamVariant(param) = "Entity" THEN Some(EntityLayout)
    ELSE IF param.component_id \in Registered
    THEN Some(layout_of(param.component_id))
    ELSE None

\* A get_layout that records as a parameter's offset the size accumulated
\* before it, without the padding.
RECURSIVE DynamicParamSet_get_layout_unpadded(_, _, _)
DynamicParamSet_get_layout_unpadded(rest, full_layout, offsets) ==
    IF rest = <<>>
    THEN [kind |-> "Ok", layout |-> full_layout, offsets |-> offsets]
    ELSE LET l == DynamicParam_get_layout(Head(rest))
         IN IF l = None THEN [kind |-> "Panic", panic |-> UnknownPanic]
            ELSE LET r == Layout_extend(full_layout, l.value)
                 IN IF r.kind = "Err"
                    THEN [kind |-> "Panic", panic |-> UnwrapPanic]
                    ELSE DynamicParamSet_get_layout_unpadded(
                            Tail(rest), r.layout,
                            Append(offsets, full_layout.size))

\* The loop of DynamicParamSet::get_layout over the parameters after the
\* first: extend the layout by each one and push the offset it was given.
RECURSIVE DynamicParamSet_get_layout_loop(_, _, _)
DynamicParamSet_get_layout_loop(rest, full_layout, offsets) ==
    IF rest = <<>>
    THEN [kind |-> "Ok", layout |-> full_layout, offsets |-> offsets]
    ELSE LET l == DynamicParam_get_layout(Head(rest))
         IN IF l = None THEN [kind |-> "Panic", panic |-> UnknownPanic]
            ELSE LET r == Layout_extend(full_layout, l.value)
                 IN IF r.kind = "Err"
                    THEN [kind |-> "Panic", panic |-> UnwrapPanic]
                    ELSE DynamicParamSet_get_layout_loop(
                            Tail(rest), r.layout, Append(offsets, r.offset))

\* DynamicParamSet::get_layout: offsets start as [0] and the layout as the
\* first parameter's; unwrap panics on an empty list.
DynamicParamSet_get_layout(set) ==
    IF set = <<>> THEN [kind |-> "Panic", panic |-> UnwrapPanic]
    ELSE LET first == DynamicParam_get_layout(Head(set))
         IN IF first = None THEN [kind |-> "Panic", panic |-> UnknownPanic]
            ELSE DynamicParamSet_get_layout_loop(Tail(set), first.value, <<0>>)

\* A caller asks for the layout of the parameters pushed so far.
get_layout ==
    /\ pc = "Setup"
    /\ layout' = [params |-> params,
                  result |-> DynamicParamSet_get_layout(params)]
    /\ UNCHANGED <<cast, rebuilt, other, world, store, written, params,
                   conditions, sub, query, state, iter, yielded, pc, panic>>

NextLayout ==
    \/ entity
    \/ component
    \/ mut_component
    \/ optional_component
    \/ optional_mut_component
    \/ get_layout

SpecLayout == Init /\ [][NextLayout]_vars

\* The least multiple of align that is not below n.
RoundUp(n, align) == CHOOSE m \in n..(n + align - 1) : m % align = 0

\* Size and alignment of what a parameter on a registered handle yields.
ParamSize(p) == IF p.kind = "Entity" THEN 8 ELSE layout_size(p.component_id)
ParamAlign(p) ==
    IF p.kind = "Entity" THEN 4
    ELSE IF p.component_id = "V" THEN 8 ELSE 1

\* C25: Total layout. For every non-empty list of parameters on registered
\* handles get_layout returns one offset per parameter; the first offset is
\* 0, each next offset is the size accumulated so far (the previous offset
\* plus the previous parameter's size) rounded up to the parameter's
\* alignment, the total size is the last offset plus the last parameter's
\* size, and so the regions of two parameters never overlap.
C25_TotalLayout ==
    ( /\ layout # NoLayout
      /\ layout.params # <<>>
      /\ HandlesWhere(layout.params, LAMBDA p : TRUE) \subseteq Registered ) =>
        LET ps == layout.params
            n == Len(ps)
            r == layout.result
        IN /\ r.kind = "Ok"
           /\ Len(r.offsets) = n
           /\ r.offsets[1] = 0
           /\ \A k \in 2..n :
                 r.offsets[k] =
                    RoundUp(r.offsets[k - 1] + ParamSize(ps[k - 1]),
                            ParamAlign(ps[k]))
           /\ r.layout.size = r.offsets[n] + ParamSize(ps[n])
           /\ \A j, k \in 1..n :
                 j < k => r.offsets[j] + ParamSize(ps[j]) <= r.offsets[k]

\* C25 witness: the layout of three parameters in which two offsets needed
\* padding (GridSpace, then Entity, then TestComponent: offsets 0, 4, 16).
C25_Witness ==
    /\ layout # NoLayout
    /\ Len(layout.params) = 3
    /\ layout.result.kind = "Ok"
    /\ layout.result.offsets[2] > ParamSize(layout.params[1])
    /\ layout.result.offsets[3] >
            layout.result.offsets[2] + ParamSize(layout.params[2])

\* --------------------------------------------------------------- restart
\* The world grows after an iteration has ended: one more entity. The rows
\* of the ended iteration are those of the world before.
spawn_after_done ==
    \E components \in SUBSET Registered :
        /\ pc \in {"Done", "Grown"}
        /\ World_spawn(components)
        /\ pc' = "Grown"
        /\ UNCHANGED <<cast, rebuilt, other, layout, written, params, conditions,
                       sub, query, state, iter, yielded, panic>>

\* QueryState::iter_mut on the state of a finished iteration: the matcher is
\* run over the archetypes registered since it last ran, then a new iterator
\* is made.
iter_mut_again ==
    /\ pc \in {"Done", "Grown"}
    /\ LET st == QueryState_update_archetypes(
                    state, state.archetype_generation + 1)
       IN /\ state' = st
          /\ iter' = QueryIter_new(st)
    /\ yielded' = <<>>
    /\ pc' = "Iterating"
    /\ UNCHANGED <<cast, rebuilt, other, layout, world, store, written, params,
                   conditions, sub, query, panic>>

\* QueryState::iter_unchecked_manual on the state of a finished iteration: a
\* new iterator over what the state has matched, the matcher is not run.
iter_unchecked_manual ==
    /\ pc \in {"Done", "Grown"}
    /\ iter' = QueryIter_new(state)
    /\ yielded' = <<>>
    /\ pc' = "Iterating"
    /\ UNCHANGED <<cast, rebuilt, other, layout, world, store, written, params,
                   conditions, sub, query, state, panic>>

NextRestart ==
    \/ SpawnAny
    \/ entity
    \/ component
    \/ with_component
    \/ without_component
    \/ build
    \/ query_dynamic
    \/ iter_mut
    \/ next
    \/ spawn_after_done
    \/ iter_mut_again
    \/ iter_unchecked_manual

SpecRestart == Init /\ [][NextRestart]_vars

\* The entities of a list of archetypes or tables.
EntitiesOf(ids, containers) == Range(EntitiesInOrder(ids, containers))

\* The matcher has seen every archetype of the world.
MatcherCurrent == state.archetype_generation = Len(archetypes)

LastIndex == iter.current_index - 1

entity_arr ==
    IF iter.is_dense THEN tables[iter.current].entities
    ELSE archetypes[iter.current].entities

row_map == archetypes[iter.current].entity_table_rows

CurrentTableId ==
    IF iter.is_dense THEN iter.current ELSE archetypes[iter.current].table_id

SparseCellIndex(id, e) == IndexOf(sparse_sets[id], LAMBDA x : x = e) - 1

C27_RowAddressing ==
    (pc = "Iterating" /\ iter.current_index > 0) =>
        LET row == yielded[Len(yielded)]
            i == LastIndex
        IN \A k \in 1..Len(query.params) :
              LET p == query.params[k]
                  item == row.items[k]
              IN /\ p.kind = "Entity" =>
                        item = EntityItem(entity_arr[i + 1])
                 /\ (p.kind = "Component" /\ item.tag # "NoMatch") =>
                        /\ item.tag = "Component"
                        /\ IF storage_type(p.component_id) = "Table"
                           THEN item.pointer =
                                  [base |-> <<"column", CurrentTableId,
                                              p.component_id>>,
                                   addr |-> (IF iter.is_dense THEN i
                                             ELSE row_map[i + 1])
                                            * layout_size(p.component_id)]
                           ELSE /\ ~iter.is_dense
                                /\ item.pointer =
                                     [base |-> <<"sparse", p.component_id>>,
                                      addr |-> SparseCellIndex(
                                                  p.component_id,
                                                  entity_arr[i + 1])
                                               * layout_size(p.component_id)]

\* C27 witness: an archetype-mode row with an Entity item, a sparse-set
\* component and a table-stored component whose table row differs from the
\* index in the archetype.
C27_Witness ==
    /\ pc = "Iterating"
    /\ iter.current_index > 0
    /\ ~iter.is_dense
    /\ row_map[LastIndex + 1] # LastIndex
    /\ \E k1, k2, k3 \in 1..Len(query.params) :
          /\ query.params[k1].kind = "Entity"
          /\ query.params[k2].kind = "Component"
          /\ storage_type(query.params[k2].component_id) = "Table"
          /\ yielded[Len(yielded)].items[k2].tag = "Component"
          /\ query.params[k3].kind = "Component"
          /\ storage_type(query.params[k3].component_id) = "SparseSet"
          /\ yielded[Len(yielded)].items[k3].tag = "Component"

\* ---------------------------------------------------------------------- C28
\* One query from construction to the end of its iteration over a world that
\* is not changed once the query is built. The driver runs derivation,
\* iterator construction and the iterator calls one after the other without
\* waiting for anything, so each of them is taken when it stays enabled.
NextProgress ==
    \/ SpawnAny
    \/ entity
    \/ component
    \/ build
    \/ query_dynamic
    \/ iter_mut
    \/ next

SpecProgress ==
    /\ Init
    /\ [][NextProgress]_vars
    /\ WF_vars(query_dynamic)
    /\ WF_vars(iter_mut)
    /\ WF_vars(next)

\* The matched archetypes (tables, in dense mode) the iterator walks.
WalkedIds ==
    IF iter.is_dense THEN state.matched_table_ids
    ELSE state.matched_archetype_ids

\* The lifecycle steps of the claim, and those that end in a panic.
LifecycleSteps ==
    {<<"Setup", "Built">>, <<"Built", "StateDerived">>,
     <<"StateDerived", "Iterating">>, <<"Iterating", "Done">>}

PanicSteps ==
    {<<"Built", "Panicked">>, <<"StateDerived", "Panicked">>}

\* The safety half of C28: the index of the matched archetype (or table) never
\* decreases and increases whenever the iterator enters another archetype, an
\* archetype is listed once so none is entered twice, every call that returns
\* a row moves the position forward, no entity is yielded twice and, at Done,
\* every row of every walked archetype has been yielded.
ProgressStep ==
    /\ pc' # pc => <<pc, pc'>> \in LifecycleSteps \cup PanicSteps
    /\ pc # "Setup" => <<world, store>>' = <<world, store>>
    /\ (pc = "Iterating" /\ pc' \in {"Iterating", "Done"}) =>
          /\ iter'.cursor >= iter.cursor
          /\ iter'.current # iter.current => iter'.cursor > iter.cursor
          /\ iter'.cursor > 0 => iter'.current = WalkedIds[iter'.cursor]
          /\ \A a, b \in 1..Len(WalkedIds) :
                WalkedIds[a] = WalkedIds[b] => a = b
          /\ yielded' # yielded =>
                /\ Len(yielded') = Len(yielded) + 1
                /\ \/ iter'.cursor > iter.cursor
                   \/ iter'.current_index > iter.current_index
                /\ yielded'[Len(yielded')].entity \notin YieldedEntities
                /\ yielded'[Len(yielded')].entity =
                      (IF iter.is_dense THEN tables[iter'.current].entities
                       ELSE archetypes[iter'.current].entities)
                          [iter'.current_index]
          /\ pc' = "Done" =>
                /\ iter'.cursor = Len(WalkedIds)
                /\ Len(yielded) = Len(EntitiesInOrder(WalkedIds,
                        IF iter.is_dense THEN tables ELSE archetypes))

\* C28 as claimed: progress and termination. Over a world that is not mutated
\* an iteration moves through Built, StateDerived and Iterating with a
\* strictly increasing index of the matched archetype (or table), never
\* returns to an earlier archetype, yields each row once, and reaches Done
\* after finitely many steps.
C28_ProgressAndTermination ==
    /\ [][ProgressStep /\ (pc' # pc => <<pc, pc'>> \in LifecycleSteps)]_vars
    /\ (pc = "Built") ~> (pc = "Done")

\* C28 amended: as claimed, except that a query may end in a panic before
\* its first row: while the state is derived (conflicting access) or while
\* the iterator is made (component not registered). A built query reaches
\* Done or Panicked after finitely many steps, and an iteration that has
\* started reaches Done.
C28_ProgressOrPanic ==
    /\ [][ProgressStep]_vars
    /\ (pc = "Built") ~> (pc \in {"Done", "Panicked"})
    /\ (pc = "Iterating") ~> (pc = "Done")

\* C28 witness: an archetype-mode iteration over two matched archetypes has
\* ended, the three rows they hold yielded.
C28_Witness ==
    /\ pc = "Done"
    /\ ~iter.is_dense
    /\ iter.cursor = 2
    /\ Len(state.matched_archetype_ids) = 2
    /\ Len(yielded) = 3

\* ---------------------------------------------------------------------- C29
\* The archetypes the matcher accepts, and those it has recorded.
MatcherAccepts(archetype) ==
    /\ DynamicSetFetchState_matches_archetype(state.fetch_state.params, archetype)
    /\ DynamicSetFilterState_matches_archetype(state.filter_state.params, archetype)

MatchedArchetypes == Range(state.matched_archetype_ids)

\* C29: Whenever dense mode is selected, every archetype that shares a table
\* with a matched archetype is itself matched, so the rows of the matched
\* tables hold no entity of an unmatched archetype and none is yielded; a
\* query with a sparse-set component parameter, or with a filter literal on a
\* sparse-set component at any Or depth, is never dense.
C29_DenseTableSharing ==
    iter # NoIter =>
        /\ iter.is_dense =>
              /\ \A a, b \in 1..Len(archetypes) :
                    ( /\ archetypes[a].table_id = archetypes[b].table_id
                      /\ a \in MatchedArchetypes ) =>
                        /\ b \in MatchedArchetypes
                        /\ MatcherAccepts(archetypes[b])
              /\ \A t \in Range(state.matched_table_ids) :
                    \A e \in Range(tables[t].entities) :
                        ArchetypeOf(e) \in MatchedArchetypes
              /\ \A e \in YieldedEntities : ArchetypeOf(e) \in MatchedArchetypes
        /\ ( \/ \E k \in 1..Len(query.params) :
                  /\ query.params[k].kind = "Component"
                  /\ storage_type(query.params[k].component_id) = "SparseSet"
             \/ \E h \in FilterHandles(query.filter) :
                  storage_type(h) = "SparseSet" ) => ~iter.is_dense

\* C29 witness: a finished dense iteration with a filter has yielded entities
\* of two matched archetypes that share a table, while another archetype is
\* not matched.
C29_Witness ==
    /\ pc = "Done"
    /\ iter.is_dense
    /\ query.filter # <<>>
    /\ \E e1, e2 \in YieldedEntities :
          /\ ShareTable(e1, e2)
          /\ ArchetypeOf(e1) # ArchetypeOf(e2)
    /\ \E a \in 1..Len(archetypes) : a \notin MatchedArchetypes

\* ---------------------------------------------------------------------- C30
\* The pointers a component fetch carries.
PointersOf(f) ==
    <<f.table_components, f.table_ticks, f.entity_table_rows, f.entities>>

\* The component of fetch f is stored for the archetype (or table) the
\* iterator is in.
PresentInCurrent(f) ==
    IF iter.is_dense THEN f.component_id \in tables[iter.current].columns
    ELSE f.component_id \in archetypes[iter.current].components

\* The pointers of fetch f are those of the archetype (or table) the iterator
\* is in.
WiredToCurrent(f) ==
    IF f.variant = "Entity"
    THEN f.entities = (IF iter.is_dense
                       THEN TableEntitiesPtr(tables[iter.current])
                       ELSE ArchetypeEntitiesPtr(archetypes[iter.current]))
    ELSE IF f.storage_type = "SparseSet"
    THEN f.entities = ArchetypeEntitiesPtr(archetypes[iter.current])
    ELSE /\ f.table_components = <<"column", CurrentTableId, f.component_id>>
         /\ f.table_ticks = <<"ticks", CurrentTableId, f.component_id>>
         /\ ~iter.is_dense =>
               f.entity_table_rows = EntityTableRowsPtr(archetypes[iter.current])

\* The pointer a component item of fetch f is computed from.
BasePointer(f) ==
    IF f.storage_type = "SparseSet" THEN f.sparse_set ELSE f.table_components

\* C30: No stale pointer is yielded. Once the iterator has entered an archetype
\* or table, the pointers of every fetch whose component is stored there are
\* the ones set for it, and the component items of the row returned last are
\* computed from them; the fetch of an optional component that is not stored
\* there has its matches flag false and returned NoMatch. Setting any fetch
\* the iteration can reach to an archetype or table without the optional
\* component leaves its pointers as they were, clears the flag, and every
\* fetch then returns NoMatch.
C30_NoStalePointer ==
    /\ (pc = "Iterating" /\ iter.cursor > 0) =>
          \A k \in 1..Len(iter.fetch) :
              LET f == iter.fetch[k]
              IN IF f.variant = "Entity" THEN WiredToCurrent(f)
                 ELSE /\ f.variant = "OptionalComponent" =>
                            f.matches = PresentInCurrent(f)
                      /\ f.variant = "Component" => PresentInCurrent(f)
                      /\ PresentInCurrent(f) => WiredToCurrent(f)
                      /\ iter.current_index > 0 =>
                            LET item == yielded[Len(yielded)].items[k]
                            IN IF PresentInCurrent(f)
                               THEN /\ item.tag = "Component"
                                    /\ item.pointer.base = BasePointer(f)
                               ELSE item = NoMatch
    /\ iter # NoIter =>
          \A k \in 1..Len(iter.fetch) :
              LET f == iter.fetch[k]
              IN f.variant = "OptionalComponent" =>
                    IF iter.is_dense
                    THEN \A t \in 1..Len(tables) :
                            f.component_id \notin tables[t].columns =>
                                LET g == DynamicFetch_set_table(f, tables[t])
                                IN /\ ~g.matches
                                   /\ PointersOf(g) = PointersOf(f)
                                   /\ \A i \in 0..(MaxEntities - 1) :
                                         DynamicFetch_table_fetch(g, i) = NoMatch
                    ELSE \A a \in 1..Len(archetypes) :
                            f.component_id \notin archetypes[a].components =>
                                LET g == DynamicFetch_set_archetype(f, archetypes[a])
                                IN /\ ~g.matches
                                   /\ PointersOf(g) = PointersOf(f)
                                   /\ \A i \in 0..(MaxEntities - 1) :
                                         DynamicFetch_archetype_fetch(g, i) = NoMatch

\* C30 witness: an archetype-mode iteration is in an archetype without an
\* optional table-stored component after it walked one that has it: the fetch
\* still holds the column of the earlier archetype's table, and the row
\* returned last has NoMatch for it.
C30_Witness ==
    /\ pc = "Iterating"
    /\ ~iter.is_dense
    /\ iter.cursor > 1
    /\ iter.current_index > 0
    /\ \E k \in 1..Len(iter.fetch) :
          /\ iter.fetch[k].variant = "OptionalComponent"
          /\ ~iter.fetch[k].matches
          /\ iter.fetch[k].table_components \notin {Dangling, UnwrapNone}
          /\ iter.fetch[k].table_components[2] # CurrentTableId
          /\ yielded[Len(yielded)].items[k] = NoMatch
====
